---------------------------- MODULE Spec2Model ----------------------------
(***************************************************************************)
(* Backup retention engine: the cleaner loop, its three retention          *)
(* policies, the size enforcer, the grace guard and the deletion pipeline  *)
(* (backend/internal/features/backups/backups/backuping/cleaner.go).       *)
(*                                                                         *)
(* Time is counted in minutes since 1970-01-01T00:00Z.                     *)
(***************************************************************************)
EXTENDS Integers, Sequences, FiniteSets, TLC

VARIABLES
    \* ---- catalog, object store, configuration --------------------------
    now,          \* wall clock (minutes since the epoch)
    rows,         \* backup id -> [db, status, createdAt, size]: every row ever saved
    catalog,      \* ids of the rows currently in the catalog
    blobs,        \* objects in the store: <<id, "data">>, <<id, "meta">>
    configs,      \* database id -> BackupConfig
    listeners,    \* c.backupRemoveListeners, in registration order
    \* ---- the last DeleteBackup call (history) ---------------------------
    calls,        \* the calls that DeleteBackup made, in order
    result,       \* what it returned
    pre,          \* catalog and blobs as they were when it was called
    lastId,       \* the backup it was called on
    \* ---- cleaner loop ---------------------------------------------------
    pc,           \* position of the loop inside Run
    ticks,        \* ticks begun so far
    ctxDone,      \* the context passed to Run is cancelled
    todo,         \* enabled configs still to be processed by the running phase
    cands,        \* candidates of the current database still to be looked at
    handed,       \* history: every backup the cleaner handed to DeleteBackup
    visited,      \* history: <<phase, db>> pairs processed in the current tick
    cur,          \* database whose candidates are being processed (0: none)
    faults,       \* failures of the collaborators so far
    \* ---- Run's single-shot guard ----------------------------------------
    hasRun,       \* c.hasRun
    once,         \* c.runOnce: "fresh", "running" (f executing) or "done"
    rpc,          \* caller -> position inside Run
    wasAlreadyRun, \* caller -> its local wasAlreadyRun
    entered,      \* history: callers that entered the function given to runOnce.Do
    tickers,      \* history: callers that executed a tick
    \* ---- buildGFSKeepSet ------------------------------------------------
    gfsInput,     \* backups: the list it was called with
    gfsPos,       \* number of backups its loop has been through
    gfsSt,        \* its locals: keep, the five seen maps, the five counters
    gfsFills,     \* history: <<class, backup>> for every slot filled
    gfsRet,       \* history: the keep-sets returned, call after call
    \* ---- BackupConfig.Validate ------------------------------------------
    valConfig,    \* b: the config Validate is called on
    valPlan,      \* plan: the plan it is validated against
    valEnv,       \* config.GetEnv(): IsCloud
    valOut,       \* what Validate did: "ok", the error's text, or "panic"
    valClean,     \* what the cleaner does with the config once it is saved
    \* ---- TimePeriod ------------------------------------------------------
    perIn,        \* three period strings
    perOut        \* the results of ToDuration and CompareTo on them

vars == <<now, rows, catalog, blobs, configs, listeners, calls, result, pre,
          lastId, pc, ticks, ctxDone, todo, cands, handed, visited, cur, faults,
          hasRun, once, rpc, wasAlreadyRun, entered, tickers,
          gfsInput, gfsPos, gfsSt, gfsFills, gfsRet,
          valConfig, valPlan, valEnv, valOut, valClean, perIn, perOut>>

storeVars == <<rows, catalog, blobs, configs>>
pipeVars  == <<calls, result, pre, lastId>>
loopVars  == <<pc, ticks, todo, cands, handed, visited, cur, faults>>
runVars   == <<hasRun, once, rpc, wasAlreadyRun, entered, tickers>>
gfsVars   == <<gfsInput, gfsPos, gfsSt, gfsFills, gfsRet>>
valVars   == <<valConfig, valPlan, valEnv, valOut, valClean>>
perVars   == <<perIn, perOut>>

-----------------------------------------------------------------------------
(* Bounds of the model.                                                    *)

MaxBackups == 3
MaxListeners == 2
MaxTicks == 1
MaxAdvance == 1
MaxCallers == 2
MaxFaults == 1

-----------------------------------------------------------------------------
(* Sequence helpers.                                                       *)

Range(s) == {s[i] : i \in DOMAIN s}

SeqsUpTo(S, n) == UNION {[1..k -> S] : k \in 0..n}

Min(S) == CHOOSE x \in S : \A y \in S : x <= y

\* every ordering of the finite set S
Orderings(S) ==
    {s \in [1..Cardinality(S) -> S] : \A i, j \in DOMAIN s : i # j => s[i] # s[j]}

-----------------------------------------------------------------------------
(* The deletion pipeline: BackupCleaner.DeleteBackup.                      *)
(*                                                                         *)
(* What the collaborators answer during one call is the call's input:      *)
(*   failing      the listeners whose OnBeforeBackupRemove returns an error*)
(*   storageFound GetStorageByID resolves backup.StorageID                 *)
(*   fileOk       DeleteFile(fileName) succeeds                            *)
(*   metaOk       DeleteFile(fileName + ".metadata") succeeds              *)
(*   dbOk         DeleteByID succeeds                                      *)

ListenerIds == 1..MaxListeners

Envs == [failing : SUBSET ListenerIds, storageFound : BOOLEAN,
         fileOk : BOOLEAN, metaOk : BOOLEAN, dbOk : BOOLEAN]

AllOk == [failing |-> {}, storageFound |-> TRUE,
          fileOk |-> TRUE, metaOk |-> TRUE, dbOk |-> TRUE]

DataBlob(id) == <<id, "data">>
MetaBlob(id) == <<id, "meta">>

\* Storage.deleteFile: removes the object; succeeds on a missing object
DeleteFile(bl, obj, ok) == IF ok THEN bl \ {obj} ELSE bl

\* BackupRepository.deleteById: removes the row; succeeds on a missing id
DeleteByID(cat, id, ok) == IF ok THEN cat \ {id} ELSE cat

\* index of the first listener that returns an error (Len + 1: none does)
FirstFailing(ls, failing) ==
    Min({i \in DOMAIN ls : ls[i] \in failing} \cup {Len(ls) + 1})

HookFailed(ls, failing) == FirstFailing(ls, failing) <= Len(ls)

HooksInvokedAll(ls, failing) == ls

\* the listeners the loop of DeleteBackup invokes, in order: it returns at
\* the first error
HooksInvoked(ls, failing) ==
    IF HookFailed(ls, failing) THEN SubSeq(ls, 1, FirstFailing(ls, failing))
    ELSE ls

StorageLookupIgnored(env) == FALSE

\* GetStorageByID failed: DeleteBackup returns the error
StorageLookupAborts(env) == ~env.storageFound

DeleteFileErrorReturned(env) == ~env.fileOk \/ ~env.metaOk

\* a DeleteFile error is logged, never returned
DeleteFileAborts(env) == FALSE

CatalogErrorIgnored(env) == "ok"

\* return c.backupRepository.DeleteByID(backup.ID)
CatalogResult(env) == IF env.dbOk THEN "ok" ELSE "db_error"

Call(op, arg, suffix) == <<op, arg, suffix>>

HookCalls(hooks) ==
    [i \in 1..Len(hooks) |-> Call("OnBeforeBackupRemove", hooks[i], "")]

\* the metadata object left alone when the main object could not be deleted
DeleteFileCallsMainFirstOnly(id, env) ==
    IF env.fileOk
    THEN <<Call("DeleteFile", id, ""), Call("DeleteFile", id, ".metadata")>>
    ELSE <<Call("DeleteFile", id, "")>>

\* storage.DeleteFile(backup.FileName), its error only logged, then
\* storage.DeleteFile(backup.FileName + ".metadata")
DeleteFileCalls(id, env) ==
    <<Call("DeleteFile", id, ""), Call("DeleteFile", id, ".metadata")>>

\* DeleteBackup(backup) with listeners ls on catalog cat and object store bl:
\* what it returns, the catalog and the store it leaves, the calls it made
DeleteBackup(id, ls, env, cat, bl) ==
    LET hookCalls == HookCalls(HooksInvoked(ls, env.failing))
        lookup    == hookCalls \o <<Call("GetStorageByID", id, "")>>
        bl1       == DeleteFile(bl, DataBlob(id), env.fileOk)
        bl2       == DeleteFile(bl1, MetaBlob(id), env.metaOk)
        files     == lookup \o DeleteFileCalls(id, env)
    IN  IF HookFailed(ls, env.failing)
        THEN [result |-> "hook_error", catalog |-> cat, blobs |-> bl,
              calls |-> hookCalls]
        ELSE IF StorageLookupAborts(env)
        THEN [result |-> "storage_error", catalog |-> cat, blobs |-> bl,
              calls |-> lookup]
        ELSE IF DeleteFileAborts(env)
        THEN [result |-> "storage_error", catalog |-> cat, blobs |-> bl2,
              calls |-> files]
        ELSE [result |-> CatalogResult(env),
              catalog |-> DeleteByID(cat, id, env.dbOk),
              blobs |-> bl2,
              calls |-> files \o <<Call("DeleteByID", id, "")>>]

-----------------------------------------------------------------------------
(* Calendar: time.Time in UTC, as minutes since 1970-01-01T00:00Z.         *)

MinutesPerDay == 24 * 60

\* days since the epoch of the civil date y-m-d (proleptic Gregorian)
DaysFromCivil(y, m, d) ==
    LET yy  == IF m <= 2 THEN y - 1 ELSE y
        era == yy \div 400
        yoe == yy - era * 400
        mp  == IF m > 2 THEN m - 3 ELSE m + 9
        doy == (153 * mp + 2) \div 5 + d - 1
        doe == yoe * 365 + yoe \div 4 - yoe \div 100 + doy
    IN  era * 146097 + doe - 719468

\* the civil date <<year, month, day>> of a day number
CivilFromDays(z) ==
    LET zz  == z + 719468
        era == zz \div 146097
        doe == zz - era * 146097
        yoe == (doe - doe \div 1460 + doe \div 36524 - doe \div 146096) \div 365
        doy == doe - (365 * yoe + yoe \div 4 - yoe \div 100)
        mp  == (5 * doy + 2) \div 153
        d   == doy - (153 * mp + 2) \div 5 + 1
        m   == IF mp < 10 THEN mp + 3 ELSE mp - 9
        y   == yoe + era * 400 + (IF m <= 2 THEN 1 ELSE 0)
    IN  <<y, m, d>>

Instant(y, m, d, hh, mm) ==
    (DaysFromCivil(y, m, d) * 24 + hh) * 60 + mm

DayOf(t)  == t \div MinutesPerDay
HourOf(t) == (t \div 60) % 24
YearOf(t) == CivilFromDays(DayOf(t))[1]

\* ISO-8601 weekday of a day number, Monday = 1 .. Sunday = 7
\* (1970-01-01 was a Thursday)
ISOWeekday(z) == ((z + 3) % 7) + 1

\* time.Time.ISOWeek: the week belongs to the year that holds its Thursday
ISOWeek(t) ==
    LET z        == DayOf(t)
        thursday == z + 4 - ISOWeekday(z)
        y        == CivilFromDays(thursday)[1]
        yday     == thursday - DaysFromCivil(y, 1, 1)
    IN  <<y, yday \div 7 + 1>>

\* the bucket keys of buildGFSKeepSet; a formatted key is written as the tuple
\* of the numbers it prints
HourKey(t)  == CivilFromDays(DayOf(t)) \o <<HourOf(t)>>
DayKey(t)   == CivilFromDays(DayOf(t))
WeekKey(t)  == ISOWeek(t)
MonthKey(t) == SubSeq(CivilFromDays(DayOf(t)), 1, 2)
YearKey(t)  == <<YearOf(t)>>

-----------------------------------------------------------------------------
(* Periods (util/period).                                                  *)

Periods == {"DAY", "WEEK", "MONTH", "3_MONTH", "6_MONTH", "YEAR", "2_YEARS",
            "3_YEARS", "4_YEARS", "5_YEARS", "FOREVER"}

\* TimePeriod.ToDuration, in minutes; an unknown period panics
ToDuration(p) ==
    CASE p = "DAY"     -> 24 * 60
      [] p = "WEEK"    -> 7 * 24 * 60
      [] p = "MONTH"   -> 30 * 24 * 60
      [] p = "3_MONTH" -> 90 * 24 * 60
      [] p = "6_MONTH" -> 180 * 24 * 60
      [] p = "YEAR"    -> 365 * 24 * 60
      [] p = "2_YEARS" -> 2 * 365 * 24 * 60
      [] p = "3_YEARS" -> 3 * 365 * 24 * 60
      [] p = "4_YEARS" -> 4 * 365 * 24 * 60
      [] p = "5_YEARS" -> 5 * 365 * 24 * 60
      [] p = "FOREVER" -> 0
      [] OTHER         -> "panic"

-----------------------------------------------------------------------------
(* Catalog rows and the repository queries the cleaner consumes.           *)

Statuses == {"IN_PROGRESS", "COMPLETED", "FAILED"}

cleanerTickerInterval == 1
recentBackupGracePeriod == 60

OfDatabase(cat, rws, db) == {id \in cat : rws[id].db = db}

\* the orderings of S by createdAt, newest first; rows of equal createdAt
\* come in any order
NewestFirst(S, rws) ==
    {s \in Orderings(S) :
        \A i, j \in DOMAIN s : i < j => rws[s[i]].createdAt >= rws[s[j]].createdAt}

OldestFirst(S, rws) ==
    {s \in Orderings(S) :
        \A i, j \in DOMAIN s : i < j => rws[s[i]].createdAt <= rws[s[j]].createdAt}

\* findBackupsBeforeDate(databaseId, t): any status, newest first
FindBackupsBeforeDate(cat, rws, db, t) ==
    NewestFirst({id \in OfDatabase(cat, rws, db) : rws[id].createdAt < t}, rws)

\* findByDatabaseIdAndStatus(databaseId, status): newest first
FindByDatabaseIdAndStatus(cat, rws, db, status) ==
    NewestFirst({id \in OfDatabase(cat, rws, db) : rws[id].status = status}, rws)

\* findOldestByDatabaseExcludingInProgress(databaseId, limit): oldest first
FindOldestByDatabaseExcludingInProgress(cat, rws, db, limit) ==
    {SubSeq(s, 1, IF Len(s) < limit THEN Len(s) ELSE limit) :
        s \in OldestFirst({id \in OfDatabase(cat, rws, db) :
                              rws[id].status # "IN_PROGRESS"}, rws)}

RECURSIVE SumSizes(_, _)
SumSizes(S, rws) ==
    IF S = {} THEN 0
    ELSE LET id == CHOOSE x \in S : TRUE
         IN  rws[id].size + SumSizes(S \ {id}, rws)

\* getTotalSizeByDatabase(databaseId): the sum over COMPLETED rows
GetTotalSizeByDatabase(cat, rws, db) ==
    SumSizes({id \in OfDatabase(cat, rws, db) : rws[id].status = "COMPLETED"}, rws)

RECURSIVE Ascending(_)
Ascending(S) ==
    IF S = {} THEN <<>> ELSE <<Min(S)>> \o Ascending(S \ {Min(S)})

\* getBackupConfigsWithEnabledBackups(): the databases whose config is enabled
GetBackupConfigsWithEnabledBackups(cfgs) ==
    Ascending({db \in DOMAIN cfgs : cfgs[db].enabled})

-----------------------------------------------------------------------------
(* The grace guard and the GFS keep-set.                                   *)

IsRecentBackupInclusive(createdAt, t) == t - createdAt <= recentBackupGracePeriod

\* the grace period taken in seconds instead of minutes
IsRecentBackupSeconds(createdAt, t) == t - createdAt < recentBackupGracePeriod \div 60

\* isRecentBackup: time.Since(backup.CreatedAt) < recentBackupGracePeriod
IsRecentBackup(createdAt, t) == t - createdAt < recentBackupGracePeriod

GFSClasses == 1..5

\* the key of a timestamp in class k: hour, day, ISO week, month, year
GFSKey(k, t) ==
    CASE k = 1 -> HourKey(t)
      [] k = 2 -> DayKey(t)
      [] k = 3 -> WeekKey(t)
      [] k = 4 -> MonthKey(t)
      [] k = 5 -> YearKey(t)

GFSStart == [keep |-> {}, seen |-> [k \in GFSClasses |-> {}],
             kept |-> [k \in GFSClasses |-> 0]]

\* the budget test off by one: kept <= budget
GFSStepOverBudget(st, id, t, budgets) ==
    LET fills == {k \in GFSClasses :
                     /\ budgets[k] > 0
                     /\ st.kept[k] <= budgets[k]
                     /\ GFSKey(k, t) \notin st.seen[k]}
    IN  [keep |-> IF fills # {} THEN st.keep \cup {id} ELSE st.keep,
         seen |-> [k \in GFSClasses |->
                      IF k \in fills THEN st.seen[k] \cup {GFSKey(k, t)}
                      ELSE st.seen[k]],
         kept |-> [k \in GFSClasses |->
                      IF k \in fills THEN st.kept[k] + 1 ELSE st.kept[k]]]

\* the seen maps never written
GFSStepSeenNotRecorded(st, id, t, budgets) ==
    LET fills == {k \in GFSClasses :
                     /\ budgets[k] > 0
                     /\ st.kept[k] < budgets[k]
                     /\ GFSKey(k, t) \notin st.seen[k]}
    IN  [keep |-> IF fills # {} THEN st.keep \cup {id} ELSE st.keep,
         seen |-> st.seen,
         kept |-> [k \in GFSClasses |->
                      IF k \in fills THEN st.kept[k] + 1 ELSE st.kept[k]]]

\* the seen maps never read
GFSStepNoDedup(st, id, t, budgets) ==
    LET fills == {k \in GFSClasses :
                     /\ budgets[k] > 0
                     /\ st.kept[k] < budgets[k]}
    IN  [keep |-> IF fills # {} THEN st.keep \cup {id} ELSE st.keep,
         seen |-> [k \in GFSClasses |->
                      IF k \in fills THEN st.seen[k] \cup {GFSKey(k, t)}
                      ELSE st.seen[k]],
         kept |-> [k \in GFSClasses |->
                      IF k \in fills THEN st.kept[k] + 1 ELSE st.kept[k]]]

\* one iteration of the loop of buildGFSKeepSet on backup id, created at t
GFSStep(st, id, t, budgets) ==
    LET fills == {k \in GFSClasses :
                     /\ budgets[k] > 0
                     /\ st.kept[k] < budgets[k]
                     /\ GFSKey(k, t) \notin st.seen[k]}
    IN  [keep |-> IF fills # {} THEN st.keep \cup {id} ELSE st.keep,
         seen |-> [k \in GFSClasses |->
                      IF k \in fills THEN st.seen[k] \cup {GFSKey(k, t)}
                      ELSE st.seen[k]],
         kept |-> [k \in GFSClasses |->
                      IF k \in fills THEN st.kept[k] + 1 ELSE st.kept[k]]]

RECURSIVE GFSRun(_, _, _, _)
GFSRun(st, backups, rws, budgets) ==
    IF backups = <<>> THEN st
    ELSE GFSRun(GFSStep(st, Head(backups), rws[Head(backups)].createdAt, budgets),
                Tail(backups), rws, budgets)

\* buildGFSKeepSet(backups, hours, days, weeks, months, years)
BuildGFSKeepSet(backups, rws, budgets) == GFSRun(GFSStart, backups, rws, budgets).keep

-----------------------------------------------------------------------------
(* Candidate selection of the three retention policies.                    *)

Config(policy, period, count, gfs, cap) ==
    [enabled |-> TRUE, policy |-> policy, period |-> period, count |-> count,
     gfs |-> gfs, cap |-> cap]

NoGFS == <<0, 0, 0, 0, 0>>

\* the cutoff taken ahead of the clock: Add(storeDuration)
TimePeriodCandidatesCutoffAhead(cfg, db, cat, rws, t) ==
    IF cfg.period = "" \/ cfg.period = "FOREVER" THEN {<<>>}
    ELSE FindBackupsBeforeDate(cat, rws, db, t + ToDuration(cfg.period))

\* FOREVER not passed over: its duration is 0
TimePeriodCandidatesForeverQueried(cfg, db, cat, rws, t) ==
    IF cfg.period = "" THEN {<<>>}
    ELSE FindBackupsBeforeDate(cat, rws, db, t - ToDuration(cfg.period))

\* the query made without the database of the config
TimePeriodCandidatesAnyDatabase(cfg, db, cat, rws, t) ==
    IF cfg.period = "" \/ cfg.period = "FOREVER" THEN {<<>>}
    ELSE NewestFirst({id \in cat : rws[id].createdAt < t - ToDuration(cfg.period)}, rws)

\* cleanByTimePeriod: the backups it loads (none for "" and FOREVER)
TimePeriodCandidates(cfg, db, cat, rws, t) ==
    IF cfg.period = "" \/ cfg.period = "FOREVER" THEN {<<>>}
    ELSE FindBackupsBeforeDate(cat, rws, db, t - ToDuration(cfg.period))

\* the slice taken one position early
CountCandidatesOffByOne(cfg, db, cat, rws) ==
    IF cfg.count <= 0 THEN {<<>>}
    ELSE {IF Len(s) <= cfg.count THEN <<>> ELSE SubSeq(s, cfg.count, Len(s)) :
             s \in FindByDatabaseIdAndStatus(cat, rws, db, "COMPLETED")}

\* cleanByCount: the completed backups beyond position RetentionCount
CountCandidates(cfg, db, cat, rws) ==
    IF cfg.count <= 0 THEN {<<>>}
    ELSE {IF Len(s) <= cfg.count THEN <<>> ELSE SubSeq(s, cfg.count + 1, Len(s)) :
             s \in FindByDatabaseIdAndStatus(cat, rws, db, "COMPLETED")}

\* the keep-set not consulted
GFSCandidatesAll(cfg, db, cat, rws) ==
    IF \A k \in GFSClasses : cfg.gfs[k] <= 0 THEN {<<>>}
    ELSE FindByDatabaseIdAndStatus(cat, rws, db, "COMPLETED")

\* the keep-set built and used whatever the budgets are
GFSCandidatesUnguarded(cfg, db, cat, rws) ==
    {LET keepSet == BuildGFSKeepSet(s, rws, cfg.gfs)
         NotKept(id) == id \notin keepSet
     IN  SelectSeq(s, NotKept) :
        s \in FindByDatabaseIdAndStatus(cat, rws, db, "COMPLETED")}

\* cleanByGFS: the completed backups outside the keep-set
GFSCandidates(cfg, db, cat, rws) ==
    IF \A k \in GFSClasses : cfg.gfs[k] <= 0 THEN {<<>>}
    ELSE {LET keepSet == BuildGFSKeepSet(s, rws, cfg.gfs)
              NotKept(id) == id \notin keepSet
          IN  SelectSeq(s, NotKept) :
             s \in FindByDatabaseIdAndStatus(cat, rws, db, "COMPLETED")}

\* does the strategy query the repository (a query may fail)
RetentionQueries(cfg) ==
    CASE cfg.policy = "COUNT" -> cfg.count > 0
      [] cfg.policy = "GFS"   -> \E k \in GFSClasses : cfg.gfs[k] > 0
      [] OTHER                -> cfg.period # "" /\ cfg.period # "FOREVER"

\* the switch with the empty type sent nowhere
RetentionStrategyEmptyIgnored(policy) ==
    CASE policy = "COUNT" -> "cleanByCount"
      [] policy = "GFS"   -> "cleanByGFS"
      [] policy = ""      -> "none"
      [] OTHER            -> "cleanByTimePeriod"

\* a switch with a case for TIME_PERIOD and the empty type, and a default that
\* leaves the config alone
RetentionStrategyKnownOnly(policy) ==
    CASE policy = "COUNT" -> "cleanByCount"
      [] policy = "GFS"   -> "cleanByGFS"
      [] policy \in {"TIME_PERIOD", ""} -> "cleanByTimePeriod"
      [] OTHER            -> "none"

\* switch backupConfig.RetentionPolicyType: the strategy it selects
RetentionStrategy(policy) ==
    CASE policy = "COUNT" -> "cleanByCount"
      [] policy = "GFS"   -> "cleanByGFS"
      [] OTHER            -> "cleanByTimePeriod"

\* the switch of cleanByRetentionPolicy
RetentionCandidates(cfg, db, cat, rws, t) ==
    CASE RetentionStrategy(cfg.policy) = "cleanByCount" -> CountCandidates(cfg, db, cat, rws)
      [] RetentionStrategy(cfg.policy) = "cleanByGFS"   -> GFSCandidates(cfg, db, cat, rws)
      [] RetentionStrategy(cfg.policy) = "cleanByTimePeriod" ->
            TimePeriodCandidates(cfg, db, cat, rws, t)
      [] OTHER -> {<<>>}

-----------------------------------------------------------------------------
(* The cleaner loop: Run's loop, one tick = retention phase, size phase.   *)

Now0 == Instant(2025, 1, 1, 12, 30)
\* the clock moves in steps of half the grace period
ClockStep == recentBackupGracePeriod \div 2

\* createdAt of the rows the catalog starts with: two and one day old, half
\* an hour old, half an hour ahead of the clock
CreatedChoices ==
    {Now0 - 2 * MinutesPerDay, Now0 - MinutesPerDay, Now0 - ClockStep, Now0 + ClockStep}

\* the configs database 1 may have: every policy without a size cap, and
\* some of them with a cap of 1 MB or with a negative cap; the count and the
\* GFS budgets are plain ints and may be below 0
PolicyChoices ==
    { <<"TIME_PERIOD", "DAY", 0, NoGFS>>, <<"TIME_PERIOD", "FOREVER", 0, NoGFS>>,
      <<"TIME_PERIOD", "", 0, NoGFS>>, <<"", "DAY", 0, NoGFS>>,
      <<"COUNT", "", 0, NoGFS>>, <<"COUNT", "", 1, NoGFS>>, <<"COUNT", "", 2, NoGFS>>,
      <<"COUNT", "", -1, NoGFS>>,
      <<"GFS", "", 0, NoGFS>>, <<"GFS", "", 0, <<0, 1, 0, 0, 0>>>>,
      <<"GFS", "", 0, <<1, 0, 0, 0, 1>>>>, <<"GFS", "", 0, <<-1, 0, 0, 0, -1>>>> }

NegativeCapChoices == { <<"COUNT", "", -1, NoGFS>>, <<"GFS", "", 0, NoGFS>> }

CappedChoices ==
    { <<"TIME_PERIOD", "FOREVER", 0, NoGFS>>, <<"COUNT", "", 2, NoGFS>>,
      <<"GFS", "", 0, <<0, 1, 0, 0, 0>>>>, <<"GFS", "", 0, <<0, 2, 0, 0, 0>>>> }

ConfigChoices ==
    {Config(p[1], p[2], p[3], p[4], 0) : p \in PolicyChoices}
    \cup {Config(p[1], p[2], p[3], p[4], 1) : p \in CappedChoices}
    \cup {Config(p[1], p[2], p[3], p[4], -1) : p \in NegativeCapChoices}

Disabled == [Config("TIME_PERIOD", "DAY", 0, NoGFS, 1) EXCEPT !.enabled = FALSE]

Databases == {1, 2, 3}
BackupIds == 1..(MaxBackups + 1)

StatusRank(st) ==
    CASE st = "IN_PROGRESS" -> 1 [] st = "COMPLETED" -> 2 [] st = "FAILED" -> 3

\* rows 1..MaxBackups belong to database 1, numbered in creation order (rows of
\* one createdAt by status: the code never reads an id); the last row is an old
\* completed backup of database 2, whose backups are disabled; database 3 has
\* backups enabled and none made yet
InitialRows ==
    {[id \in BackupIds |->
         IF id <= MaxBackups
         THEN [db |-> 1, status |-> f[id][1], createdAt |-> f[id][2], size |-> 1]
         ELSE [db |-> 2, status |-> "COMPLETED",
               createdAt |-> Now0 - 2 * MinutesPerDay, size |-> 1]] :
        f \in {g \in [1..MaxBackups -> Statuses \X CreatedChoices] :
                  \A i, j \in 1..MaxBackups : i < j =>
                     \/ g[i][2] < g[j][2]
                     \/ g[i][2] = g[j][2] /\ StatusRank(g[i][1]) <= StatusRank(g[j][1])}}

\* the outcomes of the collaborators a tick is run against
TickEnvs ==
    { AllOk,
      [AllOk EXCEPT !.failing = {1}],
      [AllOk EXCEPT !.storageFound = FALSE],
      [AllOk EXCEPT !.dbOk = FALSE] }

PipeIdle ==
    /\ calls = <<>>
    /\ result = "none"
    /\ pre = [catalog |-> {}, blobs |-> {}, env |-> AllOk, listeners |-> <<>>]
    /\ lastId = 0

\* the cleaner has not come to the config
NotCleaned == [strategy |-> "none", outcome |-> "none"]

\* Validate not called, no period looked at
ValIdle ==
    /\ valConfig = <<>>
    /\ valPlan = <<>>
    /\ valEnv = FALSE
    /\ valOut = "none"
    /\ valClean = NotCleaned
    /\ perIn = <<>>
    /\ perOut = <<>>

\* buildGFSKeepSet not called yet
GFSIdle ==
    /\ gfsInput = <<>>
    /\ gfsPos = 0
    /\ gfsSt = GFSStart
    /\ gfsFills = {}
    /\ gfsRet = <<>>

RunIdle ==
    /\ hasRun = TRUE
    /\ once = "running"
    /\ rpc = <<>>
    /\ wasAlreadyRun = <<>>
    /\ entered = {}
    /\ tickers = {}

Init ==
    /\ now = Now0
    /\ rows \in InitialRows
    /\ catalog = BackupIds
    /\ blobs = {DataBlob(id) : id \in BackupIds} \cup {MetaBlob(id) : id \in BackupIds}
    /\ \E c1 \in ConfigChoices :
          configs = [db \in Databases |->
                        CASE db = 1 -> c1
                          [] db = 2 -> Disabled
                          [] db = 3 -> Config("TIME_PERIOD", "DAY", 0, NoGFS, 1)]
    /\ listeners = <<1>>
    /\ PipeIdle
    /\ RunIdle
    /\ GFSIdle
    /\ ValIdle
    /\ pc = "wait"
    /\ ticks = 0
    /\ ctxDone = FALSE
    /\ todo = <<>>
    /\ cands = <<>>
    /\ handed = <<>>
    /\ visited = {}
    /\ cur = 0
    /\ faults = 0

\* a collaborator may fail while the budget of failures lasts
MayFail(ok) == ok \/ faults < MaxFaults
Spend(ok) == IF ok THEN faults ELSE faults + 1

Handed(id, phase, db, res) ==
    [id |-> id, phase |-> phase, db |-> db, age |-> now - rows[id].createdAt,
     status |-> rows[id].status, result |-> res, tick |-> ticks]

\* the callers that are inside the function given to runOnce.Do
Looping == {c \in DOMAIN rpc : rpc[c] = "body"}

\* if ctx.Err() != nil { return }: the context is looked at once before the
\* ticker is made and the loop starts
RunStart ==
    /\ pc = "start"
    /\ pc' = IF ctxDone THEN "returned" ELSE "wait"
    /\ UNCHANGED <<now, storeVars, listeners, pipeVars, ticks, ctxDone, todo, cands,
                   handed, visited, cur, faults, runVars>>
    /\ UNCHANGED <<gfsVars, valVars, perVars>>

\* the owner of the context cancels it
Cancel ==
    /\ ~ctxDone
    /\ ctxDone' = TRUE
    /\ UNCHANGED <<now, storeVars, listeners, pipeVars, loopVars, runVars>>
    /\ UNCHANGED <<gfsVars, valVars, perVars>>

\* time passes while a database is being worked on
Advance ==
    /\ cur # 0
    /\ now < Now0 + MaxAdvance * ClockStep
    /\ now' = now + ClockStep
    /\ UNCHANGED <<storeVars, listeners, pipeVars, loopVars, ctxDone, runVars>>
    /\ UNCHANGED <<gfsVars, valVars, perVars>>

\* case <-ticker.C: the tick begins with cleanByRetentionPolicy loading the
\* enabled configs (an error ends the phase at once)
TickBegin ==
    /\ pc = "wait"
    /\ ticks < MaxTicks
    /\ \E ok \in BOOLEAN :
          /\ MayFail(ok)
          /\ faults' = Spend(ok)
          /\ todo' = IF ok THEN GetBackupConfigsWithEnabledBackups(configs) ELSE <<>>
    /\ pc' = "retention"
    /\ ticks' = ticks + 1
    /\ visited' = {}
    /\ tickers' = tickers \cup Looping
    /\ UNCHANGED <<now, storeVars, listeners, pipeVars, ctxDone, cands, handed, cur,
                   hasRun, once, rpc, wasAlreadyRun, entered>>
    /\ UNCHANGED <<gfsVars, valVars, perVars>>

\* the loop over the configs given up at the first strategy that fails
RetentionAbortsOnError(rest, ok) == IF ok THEN rest ELSE <<>>

\* if cleanErr != nil { c.logger.Error(...) }: the error of a strategy is
\* logged and the loop goes on with the configs that remain
RetentionGoesOn(rest, ok) == rest

\* cleanByRetentionPolicy, next config: the strategy loads its candidates (a
\* failed query is logged and the database is left alone)
RetentionLoad ==
    /\ pc = "retention" /\ cur = 0 /\ todo # <<>>
    /\ LET db == Head(todo) IN
       /\ \E ok \in BOOLEAN,
             c \in RetentionCandidates(configs[db], db, catalog, rows, now) :
             /\ ok \/ (RetentionQueries(configs[db]) /\ faults < MaxFaults)
             /\ faults' = Spend(ok)
             /\ cands' = IF ok THEN c ELSE <<>>
             /\ cur' = IF ok /\ c # <<>> THEN db ELSE 0
             /\ todo' = RetentionGoesOn(Tail(todo), ok)
       /\ visited' = visited \cup {<<"retention", db>>}
    /\ UNCHANGED <<now, storeVars, listeners, pipeVars, pc, ticks, ctxDone, handed,
                   runVars>>
    /\ UNCHANGED <<gfsVars, valVars, perVars>>

\* the strategy giving up on its candidates at the first deletion that fails
CandidatesDroppedOnError(rest, res) == IF res = "ok" THEN rest ELSE <<>>

\* if err := c.DeleteBackup(backup); err != nil { c.logger.Error(...); continue }
CandidatesLeft(rest, res) == rest

\* the loop over the candidates, one iteration: a recent backup is skipped,
\* any other is deleted; a failed deletion is logged
RetentionCandidate ==
    /\ pc = "retention" /\ cur # 0 /\ cands # <<>>
    /\ LET id == Head(cands) IN
       IF IsRecentBackup(rows[id].createdAt, now)
       THEN /\ cands' = Tail(cands)
            /\ UNCHANGED <<catalog, blobs, handed, faults>>
       ELSE \E env \in TickEnvs :
               LET r == DeleteBackup(id, listeners, env, catalog, blobs) IN
               /\ MayFail(env = AllOk)
               /\ faults' = Spend(env = AllOk)
               /\ catalog' = r.catalog
               /\ blobs' = r.blobs
               /\ handed' = Append(handed, Handed(id, "retention", cur, r.result))
               /\ cands' = CandidatesLeft(Tail(cands), r.result)
    /\ cur' = IF cands' = <<>> THEN 0 ELSE cur
    /\ UNCHANGED <<now, rows, configs, listeners, pipeVars, pc, ticks, ctxDone, todo,
                   visited, runVars>>
    /\ UNCHANGED <<gfsVars, valVars, perVars>>

\* the size phase let in while configs are still waiting for the retention phase
RetentionPhaseOverEarly == cur = 0

\* cleanByRetentionPolicy has returned: its loop over the configs is through
\* (or the configs could not be loaded)
RetentionPhaseOver == cur = 0 /\ todo = <<>>

\* cleanExceededBackups begins: it loads the enabled configs again
SizeBegin ==
    /\ pc = "retention" /\ RetentionPhaseOver
    /\ \E ok \in BOOLEAN :
          /\ MayFail(ok)
          /\ faults' = Spend(ok)
          /\ todo' = IF ok THEN GetBackupConfigsWithEnabledBackups(configs) ELSE <<>>
    /\ pc' = "size"
    /\ UNCHANGED <<now, storeVars, listeners, pipeVars, ticks, ctxDone, cands, handed,
                   visited, cur, runVars>>
    /\ UNCHANGED <<gfsVars, valVars, perVars>>

\* cleanExceededBackups, next config: one without a cap is passed over
SizeNext ==
    /\ pc = "size" /\ cur = 0 /\ todo # <<>>
    /\ LET db == Head(todo) IN
       IF configs[db].cap <= 0
       THEN UNCHANGED <<cur, visited>>
       ELSE /\ cur' = db
            /\ visited' = visited \cup {<<"size", db>>}
    /\ todo' = Tail(todo)
    /\ UNCHANGED <<now, storeVars, listeners, pipeVars, pc, ticks, ctxDone, cands,
                   handed, faults, runVars>>
    /\ UNCHANGED <<gfsVars, valVars, perVars>>

\* the comparison made strict
UnderCapStrict(total, cap) == total < cap

\* if backupsTotalSizeMB <= float64(limitperDbMB) { break }
UnderCap(total, cap) == total <= cap

\* the newest backup asked for instead of the oldest
SizeVictimsNewest(cat, rws, db) ==
    {IF s = <<>> THEN <<>> ELSE <<s[1]>> :
        s \in NewestFirst({id \in OfDatabase(cat, rws, db) :
                              rws[id].status # "IN_PROGRESS"}, rws)}

\* the oldest backups asked for with a limit of 0
SizeVictimsLimitZero(cat, rws, db) == FindOldestByDatabaseExcludingInProgress(cat, rws, db, 0)

\* FindOldestByDatabaseExcludingInProgress(databaseID, 1) as the loop calls it
SizeVictims(cat, rws, db) == FindOldestByDatabaseExcludingInProgress(cat, rws, db, 1)

\* the loop stopping at every oldest backup, recent or not
SizeLoopAlwaysStops(oldest, rws, t) == TRUE

\* the loop without its test of the oldest backup
SizeLoopNeverStops(oldest, rws, t) == FALSE

\* what a retention policy keeps of the completed backups s, newest first
RetainedOf(cfg, s, rws) ==
    CASE cfg.policy = "COUNT" ->
            {s[i] : i \in {j \in DOMAIN s : j <= cfg.count}}
      [] cfg.policy = "GFS" -> BuildGFSKeepSet(s, rws, cfg.gfs)
      [] OTHER -> {}

\* the loop stopping at a backup that the retention policy keeps
SizeLoopSparesRetained(oldest, rws, t) ==
    \/ IsRecentBackup(rws[oldest[1]].createdAt, t)
    \/ \E s \in FindByDatabaseIdAndStatus(catalog, rws, cur, "COMPLETED") :
          oldest[1] \in RetainedOf(configs[cur], s, rws)

\* backup := oldestBackups[0]; if isRecentBackup(backup) {...; break}
SizeLoopStops(oldest, rws, t) == IsRecentBackup(rws[oldest[1]].createdAt, t)

\* the loop going round again after a deletion that failed
SizeLoopRetriesAfterError(db, res) == db

\* if err := c.DeleteBackup(backup); err != nil {...; return err}: the loop
\* goes round again after a deletion, and is left when the deletion failed
SizeLoopAfterDelete(db, res) == IF res = "ok" THEN db ELSE 0

\* cleanExceededBackupsForDatabase, one iteration of its loop; fail names the
\* query that fails in it, if one does
SizeLoop ==
    /\ pc = "size" /\ cur # 0
    /\ \E fail \in {"none", "total", "oldest"}, env \in TickEnvs,
          oldest \in SizeVictims(catalog, rows, cur) :
          LET total == GetTotalSizeByDatabase(catalog, rows, cur) IN
          IF fail = "total"
          THEN /\ MayFail(FALSE) /\ faults' = Spend(FALSE) /\ env = AllOk
               /\ cur' = 0
               /\ UNCHANGED <<catalog, blobs, handed>>
          ELSE IF UnderCap(total, configs[cur].cap)
          THEN /\ fail = "none" /\ env = AllOk
               /\ cur' = 0
               /\ UNCHANGED <<catalog, blobs, handed, faults>>
          ELSE IF fail = "oldest"
          THEN /\ MayFail(FALSE) /\ faults' = Spend(FALSE) /\ env = AllOk
               /\ cur' = 0
               /\ UNCHANGED <<catalog, blobs, handed>>
          ELSE IF oldest = <<>>
          THEN /\ env = AllOk
               /\ cur' = 0
               /\ UNCHANGED <<catalog, blobs, handed, faults>>
          ELSE IF SizeLoopStops(oldest, rows, now)
          THEN /\ env = AllOk
               /\ cur' = 0
               /\ UNCHANGED <<catalog, blobs, handed, faults>>
          ELSE LET r == DeleteBackup(oldest[1], listeners, env, catalog, blobs) IN
               /\ MayFail(env = AllOk)
               /\ faults' = Spend(env = AllOk)
               /\ catalog' = r.catalog
               /\ blobs' = r.blobs
               /\ handed' = Append(handed, Handed(oldest[1], "size", cur, r.result))
               /\ cur' = SizeLoopAfterDelete(cur, r.result)
    /\ UNCHANGED <<now, rows, configs, listeners, pipeVars, pc, ticks, ctxDone, todo,
                   cands, visited, runVars>>
    /\ UNCHANGED <<gfsVars, valVars, perVars>>

\* both phases are over: back to the select
TickEnd ==
    /\ pc = "size" /\ cur = 0 /\ todo = <<>>
    /\ pc' = "wait"
    /\ UNCHANGED <<now, storeVars, listeners, pipeVars, ticks, ctxDone, todo, cands,
                   handed, visited, cur, faults, runVars>>
    /\ UNCHANGED <<gfsVars, valVars, perVars>>

\* the cancellation looked at between the steps of a tick as well
CancelSeenInTick == pc \in {"wait", "retention", "size"}

\* ctx.Done() is read by the select at the head of the loop and nowhere else
CancelSeen == pc = "wait"

\* case <-ctx.Done()
RunReturn ==
    /\ CancelSeen /\ ctxDone
    /\ pc' = "returned"
    /\ UNCHANGED <<now, storeVars, listeners, pipeVars, ticks, ctxDone, todo, cands,
                   handed, visited, cur, faults, runVars>>
    /\ UNCHANGED <<gfsVars, valVars, perVars>>

Next ==
    \/ Advance
    \/ TickBegin
    \/ RetentionLoad
    \/ RetentionCandidate
    \/ SizeBegin
    \/ SizeNext
    \/ SizeLoop
    \/ TickEnd

Spec == Init /\ [][Next]_vars

-----------------------------------------------------------------------------
(* The deletion pipeline on its own: listeners are registered and          *)
(* DeleteBackup is called, on present and on already deleted backups,      *)
(* against every outcome of its collaborators.                             *)

PipeIds == {1, 2}

\* the backup DeleteBackup is called on; the other row looks on
CallIds == {1}

\* an answer that the call never asks for is left at its default
Asked(env, ls) ==
    /\ env.failing \subseteq Range(ls)
    /\ HookFailed(ls, env.failing) => env.storageFound
    /\ (HookFailed(ls, env.failing) \/ ~env.storageFound)
          => env.fileOk /\ env.metaOk /\ env.dbOk

LoopIdle ==
    /\ pc = "wait"
    /\ ticks = 0
    /\ ctxDone = FALSE
    /\ todo = <<>>
    /\ cands = <<>>
    /\ handed = <<>>
    /\ visited = {}
    /\ cur = 0
    /\ faults = 0

PipeInit ==
    /\ now = Now0
    /\ rows = [id \in BackupIds |->
                  [db |-> 1, status |-> "COMPLETED",
                   createdAt |-> Now0 - 2 * MinutesPerDay, size |-> 1]]
    /\ catalog = PipeIds
    /\ blobs = {DataBlob(id) : id \in PipeIds} \cup {MetaBlob(id) : id \in PipeIds}
    /\ configs = [db \in Databases |-> Disabled]
    /\ listeners = <<>>
    /\ PipeIdle
    /\ LoopIdle
    /\ RunIdle
    /\ GFSIdle
    /\ ValIdle

\* AddBackupRemoveListener(listener)
AddBackupRemoveListener(l) ==
    /\ Len(listeners) < MaxListeners
    /\ l \notin Range(listeners)
    /\ listeners' = Append(listeners, l)
    /\ UNCHANGED <<now, storeVars, pipeVars, loopVars, ctxDone, runVars>>
    /\ UNCHANGED <<gfsVars, valVars, perVars>>

\* DeleteBackup(backup), called from outside a tick
CallDeleteBackup(id, env) ==
    LET r == DeleteBackup(id, listeners, env, catalog, blobs) IN
    /\ Asked(env, listeners)
    /\ catalog' = r.catalog
    /\ blobs' = r.blobs
    /\ calls' = r.calls
    /\ result' = r.result
    /\ pre' = [catalog |-> catalog, blobs |-> blobs, env |-> env,
               listeners |-> listeners]
    /\ lastId' = id
    /\ UNCHANGED <<now, rows, configs, listeners, loopVars, ctxDone, runVars>>
    /\ UNCHANGED <<gfsVars, valVars, perVars>>

PipeNext ==
    \/ \E l \in ListenerIds : AddBackupRemoveListener(l)
    \/ \E id \in CallIds, env \in Envs : CallDeleteBackup(id, env)

PipeSpec == PipeInit /\ [][PipeNext]_vars

-----------------------------------------------------------------------------
(* Properties of the deletion pipeline (PipeSpec).                         *)

Called == lastId # 0

IsHookCall(c) == c[1] = "OnBeforeBackupRemove"

\* number of listener calls the last DeleteBackup made
HookCallCount == Len(SelectSeq(calls, IsHookCall))

MadeCall(op) == \E i \in DOMAIN calls : calls[i][1] = op

\* none of the registered listeners would have returned an error
NoHookFails == \A i \in DOMAIN pre.listeners : pre.listeners[i] \notin pre.env.failing

StateUntouched == catalog = pre.catalog /\ blobs = pre.blobs

\* C5: the listeners are invoked in registration order, ahead of every other
\* call; each one invoked before the last passed; when an invoked one returned
\* an error the call ends there with that error, no later listener, no
\* GetStorageByID, DeleteFile or DeleteByID call, catalog and store untouched;
\* otherwise every registered listener was invoked.
C5_HooksInOrderFirstErrorAborts ==
    Called =>
        LET n == HookCallCount IN
        /\ n <= Len(pre.listeners)
        /\ \A i \in 1..n : calls[i] = Call("OnBeforeBackupRemove", pre.listeners[i], "")
        /\ \A i \in 1..(n - 1) : pre.listeners[i] \notin pre.env.failing
        /\ IF \E i \in 1..n : pre.listeners[i] \in pre.env.failing
           THEN /\ result = "hook_error"
                /\ Len(calls) = n
                /\ StateUntouched
           ELSE /\ n = Len(pre.listeners)
                /\ result # "hook_error"

C5_Witness ==
    /\ Called
    /\ Len(pre.listeners) = 2
    /\ pre.env.failing = {pre.listeners[1]}
    /\ result = "hook_error"
    /\ calls = <<Call("OnBeforeBackupRemove", pre.listeners[1], "")>>
    /\ lastId \in catalog

\* C6: once every listener passed and the storage handle resolved, DeleteBackup
\* returns what DeleteByID returned: success with the row gone whatever the two
\* DeleteFile calls answered, the catalog's error (row kept) otherwise.
C6_ResultIsCatalogResult ==
    (Called /\ NoHookFails /\ pre.env.storageFound) =>
        /\ result = (IF pre.env.dbOk THEN "ok" ELSE "db_error")
        /\ pre.env.dbOk => lastId \notin catalog
        /\ ~pre.env.dbOk => catalog = pre.catalog
        /\ MadeCall("DeleteByID")

C6_Witness ==
    /\ Called /\ NoHookFails /\ pre.env.storageFound
    /\ ~pre.env.fileOk /\ ~pre.env.metaOk /\ pre.env.dbOk
    /\ result = "ok"
    /\ lastId \in pre.catalog /\ lastId \notin catalog
    /\ DataBlob(lastId) \in blobs /\ MetaBlob(lastId) \in blobs

\* this call removed an object of the backup from the store
RemovedBlob ==
    \/ DataBlob(lastId) \in pre.blobs /\ DataBlob(lastId) \notin blobs
    \/ MetaBlob(lastId) \in pre.blobs /\ MetaBlob(lastId) \notin blobs

\* C7 as stated: no run of DeleteBackup ends with an object of the backup
\* removed while the catalog row remains.
C7_NeverRowWithoutBlob == ~(Called /\ RemovedBlob /\ lastId \in catalog)

\* C7 as amended: a run that returns success leaves no catalog row, and a run
\* that removed an object and left the row is one in which DeleteByID failed and
\* whose result is the catalog's error.
C7_RowWithoutBlobOnlyOnCatalogError ==
    Called =>
        /\ result = "ok" => lastId \notin catalog
        /\ (RemovedBlob /\ lastId \in catalog) => (result = "db_error" /\ ~pre.env.dbOk)

C7_Witness ==
    /\ Called /\ RemovedBlob /\ lastId \in catalog
    /\ result = "db_error"
    /\ DataBlob(lastId) \notin blobs /\ MetaBlob(lastId) \notin blobs

\* C8: when every listener passed and GetStorageByID fails, DeleteBackup ends
\* with that error after the lookup: every listener was invoked, no DeleteFile
\* and no DeleteByID call is made, catalog and store are untouched.
C8_StorageLookupErrorAborts ==
    (Called /\ NoHookFails /\ ~pre.env.storageFound) =>
        /\ result = "storage_error"
        /\ HookCallCount = Len(pre.listeners)
        /\ Len(calls) = Len(pre.listeners) + 1
        /\ calls[Len(calls)] = Call("GetStorageByID", lastId, "")
        /\ ~MadeCall("DeleteFile") /\ ~MadeCall("DeleteByID")
        /\ StateUntouched

C8_Witness ==
    /\ Called /\ NoHookFails /\ ~pre.env.storageFound
    /\ Len(pre.listeners) = 2
    /\ lastId \in catalog /\ DataBlob(lastId) \in blobs
    /\ result = "storage_error"

\* the backup of the last call had no row and no object left when it was called
AlreadyDeleted ==
    /\ Called
    /\ lastId \notin pre.catalog
    /\ DataBlob(lastId) \notin pre.blobs /\ MetaBlob(lastId) \notin pre.blobs

\* DeleteFile and DeleteByID succeed on what is missing
MissingIsSuccess == pre.env.fileOk /\ pre.env.metaOk /\ pre.env.dbOk

\* C9 as stated: a call on an already deleted backup changes nothing and
\* succeeds.
C9_RedeleteSucceeds ==
    (AlreadyDeleted /\ MissingIsSuccess) => (StateUntouched /\ result = "ok")

\* C9 as amended: a call on an already deleted backup changes neither catalog
\* nor store and still invokes the listeners; it succeeds exactly when every
\* listener passes and the storage handle resolves.
C9_RedeleteIsNoOp ==
    (AlreadyDeleted /\ MissingIsSuccess) =>
        /\ StateUntouched
        /\ HookCallCount >= (IF pre.listeners = <<>> THEN 0 ELSE 1)
        /\ result = "ok" <=> (NoHookFails /\ pre.env.storageFound)
        /\ result = "ok" => /\ HookCallCount = Len(pre.listeners)
                            /\ MadeCall("DeleteFile") /\ MadeCall("DeleteByID")

C9_Witness ==
    /\ AlreadyDeleted /\ MissingIsSuccess
    /\ Len(pre.listeners) = 2
    /\ result = "ok"
    /\ Len(calls) = 6

-----------------------------------------------------------------------------
(* Run called by several goroutines on one cleaner: each caller reads the  *)
(* flag, goes through runOnce.Do and looks at what it read.  The loop the  *)
(* admitted caller runs is the loop above, on a database whose backups are *)
(* all past the retention period.                                          *)

Callers == 1..MaxCallers

RunInit ==
    /\ now = Now0
    /\ rows = [id \in BackupIds |->
                  [db |-> 1, status |-> "COMPLETED",
                   createdAt |-> Now0 - 2 * MinutesPerDay - id, size |-> 1]]
    /\ catalog = PipeIds
    /\ blobs = {DataBlob(id) : id \in PipeIds} \cup {MetaBlob(id) : id \in PipeIds}
    /\ configs = [db \in Databases |->
                     IF db = 1 THEN Config("TIME_PERIOD", "DAY", 0, NoGFS, 1)
                     ELSE Disabled]
    /\ listeners = <<1>>
    /\ PipeIdle
    /\ pc = "idle"
    /\ ticks = 0
    /\ ctxDone = FALSE
    /\ todo = <<>>
    /\ cands = <<>>
    /\ handed = <<>>
    /\ visited = {}
    /\ cur = 0
    /\ faults = 0
    /\ hasRun = FALSE
    /\ once = "fresh"
    /\ rpc = [c \in Callers |-> "idle"]
    /\ wasAlreadyRun = [c \in Callers |-> FALSE]
    /\ entered = {}
    /\ tickers = {}
    /\ GFSIdle
    /\ ValIdle

\* wasAlreadyRun := c.hasRun.Load()
RunLoad(c) ==
    /\ rpc[c] = "idle"
    /\ wasAlreadyRun' = [wasAlreadyRun EXCEPT ![c] = hasRun]
    /\ rpc' = [rpc EXCEPT ![c] = "do"]
    /\ UNCHANGED <<now, storeVars, listeners, pipeVars, loopVars, ctxDone, hasRun,
                   once, entered, tickers>>
    /\ UNCHANGED <<gfsVars, valVars, perVars>>

\* a guard that admits on the caller's reading of the flag alone
FlagAdmits(c) == ~wasAlreadyRun[c]

\* runOnce.Do calls f for the first caller only
OnceAdmits(c) == once = "fresh"

\* c.runOnce.Do(func() {...}): the caller is admitted and f begins
RunOnceEnter(c) ==
    /\ rpc[c] = "do"
    /\ OnceAdmits(c)
    /\ once' = "running"
    /\ entered' = entered \cup {c}
    /\ rpc' = [rpc EXCEPT ![c] = "body"]
    /\ pc' = "store"
    /\ UNCHANGED <<now, storeVars, listeners, pipeVars, ticks, ctxDone, todo, cands,
                   handed, visited, cur, faults, hasRun, wasAlreadyRun, tickers>>
    /\ UNCHANGED <<gfsVars, valVars, perVars>>

\* c.runOnce.Do on a Once whose f has returned: f is not called.  While f is
\* executing the caller stays blocked inside Do.
RunOnceSkip(c) ==
    /\ rpc[c] = "do"
    /\ once = "done"
    /\ rpc' = [rpc EXCEPT ![c] = "check"]
    /\ UNCHANGED <<now, storeVars, listeners, pipeVars, loopVars, ctxDone, hasRun,
                   once, wasAlreadyRun, entered, tickers>>
    /\ UNCHANGED <<gfsVars, valVars, perVars>>

\* c.hasRun.Store(true)
RunStore ==
    /\ pc = "store"
    /\ hasRun' = TRUE
    /\ pc' = "start"
    /\ UNCHANGED <<now, storeVars, listeners, pipeVars, ticks, ctxDone, todo, cands,
                   handed, visited, cur, faults, once, rpc, wasAlreadyRun, entered,
                   tickers>>
    /\ UNCHANGED <<gfsVars, valVars, perVars>>

\* f has returned: Do returns to the admitted caller and the Once is done
RunOnceLeave(c) ==
    /\ rpc[c] = "body"
    /\ pc = "returned"
    /\ once' = "done"
    /\ rpc' = [rpc EXCEPT ![c] = "check"]
    /\ UNCHANGED <<now, storeVars, listeners, pipeVars, loopVars, ctxDone, hasRun,
                   wasAlreadyRun, entered, tickers>>
    /\ UNCHANGED <<gfsVars, valVars, perVars>>

\* if wasAlreadyRun { panic(...) }
RunCheck(c) ==
    /\ rpc[c] = "check"
    /\ rpc' = [rpc EXCEPT ![c] = IF wasAlreadyRun[c] THEN "panicked" ELSE "returned"]
    /\ UNCHANGED <<now, storeVars, listeners, pipeVars, loopVars, ctxDone, hasRun,
                   once, wasAlreadyRun, entered, tickers>>
    /\ UNCHANGED <<gfsVars, valVars, perVars>>

RunNext ==
    \/ \E c \in Callers : RunLoad(c)
    \/ \E c \in Callers : RunOnceEnter(c)
    \/ \E c \in Callers : RunOnceSkip(c)
    \/ RunStore
    \/ RunStart
    \/ Cancel
    \/ RunReturn
    \/ \E c \in Callers : RunOnceLeave(c)
    \/ \E c \in Callers : RunCheck(c)
    \/ Next

RunSpec == RunInit /\ [][RunNext]_vars

\* the goroutine that runs the loop is scheduled and the calls a tick makes
\* return; nothing obliges the owner of the context to cancel it
RunFairSpec == RunSpec /\ WF_vars(Next) /\ WF_vars(RunReturn)

-----------------------------------------------------------------------------
(* Properties of Run (RunSpec).                                            *)

Finished(c) == rpc[c] \in {"returned", "panicked"}

\* C3 as stated: Run is single-shot, every call but the one that ran the loop
\* ends in the panic, whenever it was made; no second call returns normally.
C3_EverySecondRunPanics ==
    \A c \in Callers : (Finished(c) /\ c \notin entered) => rpc[c] = "panicked"

\* C4: whatever the interleaving of the Run calls, the function given to
\* runOnce.Do is entered by at most one caller, by exactly one once any caller
\* is past Do, and every tick is executed by that caller.
C4_SingleActivation ==
    /\ Cardinality(entered) <= 1
    /\ Cardinality(tickers) <= 1
    /\ tickers \subseteq entered
    /\ ticks > 0 => entered # {}
    /\ \A c \in Callers :
          rpc[c] \in {"body", "check", "returned", "panicked"} => Cardinality(entered) = 1

C4_Witness ==
    \E c1, c2 \in Callers :
        /\ c1 # c2
        /\ tickers = {c1}
        /\ rpc[c1] = "body"
        /\ rpc[c2] = "do" /\ ~wasAlreadyRun[c2]
        /\ handed # <<>>

-----------------------------------------------------------------------------
(* Properties of the ticks (Spec).                                         *)

HandedIn(t, phase, db) ==
    {i \in DOMAIN handed :
        handed[i].tick = t /\ handed[i].phase = phase /\ handed[i].db = db}

\* the rows a tick removed
Removed == BackupIds \ catalog

\* C1: every backup a tick hands to DeleteBackup, in the retention phase under
\* any policy and in the size phase, is at least the grace period old at that
\* moment; so no row is removed while younger than that, or while its
\* createdAt is ahead of the clock.
C1_GraceGuard ==
    /\ \A i \in DOMAIN handed : handed[i].age >= recentBackupGracePeriod
    /\ \A id \in Removed :
          \E i \in DOMAIN handed :
              /\ handed[i].id = id
              /\ handed[i].result = "ok"
              /\ handed[i].age >= recentBackupGracePeriod
    /\ \A id \in BackupIds : rows[id].createdAt > now => id \in catalog

\* a finished tick under COUNT 1 that removed an old backup and left two
\* completed ones, a recent one beyond the count and one dated ahead of the clock
C1_Witness ==
    /\ pc = "wait" /\ ticks >= 1
    /\ configs[1].policy = "COUNT" /\ configs[1].count = 1
    /\ \E i \in DOMAIN handed : handed[i].result = "ok" /\ handed[i].phase = "retention"
    /\ \E a, b \in catalog :
          /\ rows[a].db = 1 /\ rows[a].status = "COMPLETED"
          /\ rows[b].db = 1 /\ rows[b].status = "COMPLETED"
          /\ rows[a].createdAt < rows[b].createdAt
          /\ now - rows[a].createdAt < recentBackupGracePeriod
          /\ now - rows[a].createdAt >= 0
          /\ rows[b].createdAt > now

\* C2 as stated: no tick removes a backup whose status is IN_PROGRESS.
C2_InProgressNeverDeleted ==
    \A id \in BackupIds : rows[id].status = "IN_PROGRESS" => id \in catalog

\* the catalog as tick t found it
CatalogAt(t) ==
    BackupIds \ {handed[i].id : i \in {j \in DOMAIN handed :
                                          handed[j].tick < t /\ handed[j].result = "ok"}}

CompletedAt(t) ==
    {id \in CatalogAt(t) : rows[id].db = 1 /\ rows[id].status = "COMPLETED"}

RetentionHanded(t) == {handed[i].id : i \in HandedIn(t, "retention", 1)}

RetentionDeleted(t) ==
    {handed[i].id : i \in {j \in HandedIn(t, "retention", 1) : handed[j].result = "ok"}}

RetentionOver(t) == t < ticks \/ (t = ticks /\ pc # "retention")

\* the completed backups that were past the grace period before any tick
PastGrace(S) == {id \in S : Now0 - rows[id].createdAt >= recentBackupGracePeriod}

ToTimePeriod == configs[1].policy \notin {"COUNT", "GFS"}

FinitePeriod == configs[1].period \notin {"", "FOREVER"}

\* the rows of database 1 older than the cutoff that a query at Now0 uses
BeforeCutoff0(S) ==
    {id \in S : rows[id].db = 1
                /\ rows[id].createdAt < Now0 - ToDuration(configs[1].period)}

C12_ForeverOrEmptyDeletesNothing ==
    (ToTimePeriod /\ ~FinitePeriod) =>
        \A i \in DOMAIN handed :
            ~(handed[i].phase = "retention" /\ handed[i].db = 1)

\* a finished tick under FOREVER without a cap, a two-day-old backup still there
C12_Witness ==
    /\ pc = "wait" /\ ticks = 1
    /\ configs[1].policy = "TIME_PERIOD" /\ configs[1].period = "FOREVER"
    /\ configs[1].cap = 0
    /\ <<"retention", 1>> \in visited
    /\ \E a \in catalog :
          /\ rows[a].db = 1 /\ rows[a].status = "COMPLETED"
          /\ rows[a].createdAt = Now0 - 2 * MinutesPerDay

GFSActive == configs[1].policy = "GFS" /\ \E k \in GFSClasses : configs[1].gfs[k] > 0

-----------------------------------------------------------------------------
(* buildGFSKeepSet on its own: cleanByGFS loads the completed backups of   *)
(* database 1 and calls it, iteration by iteration; a second tick calls    *)
(* it again on what the first one left.                                    *)

MaxGFSLen == 3
MaxBudget == 2

\* createdAt of the backups: two hours of one day, the day before in the same
\* ISO week but another month and year, another week of that month, another
\* month of that year (two backups of one createdAt share the hour)
GFSTimes ==
    { Instant(2025, 1, 1, 12, 30), Instant(2025, 1, 1, 9, 0),
      Instant(2024, 12, 31, 12, 30), Instant(2024, 12, 5, 12, 30),
      Instant(2024, 6, 10, 12, 30) }

GFSIds == 1..MaxGFSLen

GFSInit ==
    /\ now = Now0
    /\ \E n \in 0..MaxGFSLen, f \in [GFSIds -> GFSTimes] :
          /\ \A i, j \in GFSIds : i < j => f[i] >= f[j]
          /\ \A i \in GFSIds : i > n => f[i] = Min(GFSTimes)
          /\ rows = [id \in GFSIds |->
                        [db |-> 1, status |-> "COMPLETED", createdAt |-> f[id],
                         size |-> 1]]
          /\ catalog = 1..n
    /\ blobs = {DataBlob(id) : id \in catalog} \cup {MetaBlob(id) : id \in catalog}
    /\ \E b \in [GFSClasses -> 0..MaxBudget] :
          configs = [db \in Databases |->
                        IF db = 1 THEN Config("GFS", "", 0, b, 0) ELSE Disabled]
    /\ listeners = <<>>
    /\ PipeIdle
    /\ LoopIdle
    /\ RunIdle
    /\ gfsInput \in FindByDatabaseIdAndStatus(catalog, rows, 1, "COMPLETED")
    /\ gfsPos = 0
    /\ gfsSt = GFSStart
    /\ gfsFills = {}
    /\ gfsRet = <<>>
    /\ ValIdle

\* for _, backup := range backups {...}: one iteration
GFSIterate ==
    /\ gfsPos >= 0 /\ gfsPos < Len(gfsInput)
    /\ LET id == gfsInput[gfsPos + 1]
           st == GFSStep(gfsSt, id, rows[id].createdAt, configs[1].gfs)
       IN  /\ gfsSt' = st
           /\ gfsFills' = gfsFills \cup
                 {<<k, id>> : k \in {c \in GFSClasses : st.kept[c] > gfsSt.kept[c]}}
    /\ gfsPos' = gfsPos + 1
    /\ UNCHANGED <<now, storeVars, listeners, pipeVars, loopVars, ctxDone, runVars,
                   gfsInput, gfsRet, valVars, perVars>>

\* return keep
GFSReturn ==
    /\ gfsPos = Len(gfsInput)
    /\ gfsRet' = Append(gfsRet, gfsSt.keep)
    /\ gfsPos' = -1
    /\ UNCHANGED <<now, storeVars, listeners, pipeVars, loopVars, ctxDone, runVars,
                   gfsInput, gfsSt, gfsFills, valVars, perVars>>

\* the next tick: cleanByGFS has removed some of the backups outside the
\* keep-set (the recent ones and those whose deletion failed stay), no backup
\* was made, and it loads the completed backups again
GFSNextTick ==
    /\ gfsPos = -1 /\ Len(gfsRet) = 1
    /\ \E gone \in SUBSET (catalog \ gfsRet[1]) :
          /\ catalog' = catalog \ gone
          /\ blobs' = blobs \ ({DataBlob(id) : id \in gone} \cup {MetaBlob(id) : id \in gone})
          /\ gfsInput' \in FindByDatabaseIdAndStatus(catalog \ gone, rows, 1, "COMPLETED")
    /\ gfsPos' = 0
    /\ gfsSt' = GFSStart
    /\ gfsFills' = {}
    /\ UNCHANGED <<now, rows, configs, listeners, pipeVars, loopVars, ctxDone, runVars,
                   gfsRet, valVars, perVars>>

GFSNext == GFSIterate \/ GFSReturn \/ GFSNextTick

GFSSpec == GFSInit /\ [][GFSNext]_vars

-----------------------------------------------------------------------------
(* Properties of buildGFSKeepSet (GFSSpec).                                *)

Budgets == configs[1].gfs

RECURSIVE SumOver(_, _)
SumOver(f, S) ==
    IF S = {} THEN 0
    ELSE LET x == CHOOSE y \in S : TRUE IN f[x] + SumOver(f, S \ {x})

\* the backups that filled a slot of class k in the running call
Fillers(k) == {id \in Range(gfsInput) : <<k, id>> \in gfsFills}

KeyOf(k, id) == GFSKey(k, rows[id].createdAt)

GFSReturned == gfsPos = -1

\* C14: at every iteration each class has filled at most its budget of slots,
\* the keep-set has at most H + D + W + M + Y members, and with all budgets
\* zero or an empty list the keep-set stays empty.
C14_GFSBudgetsRespected ==
    /\ \A k \in GFSClasses :
          /\ gfsSt.kept[k] <= Budgets[k]
          /\ Cardinality(Fillers(k)) <= Budgets[k]
    /\ Cardinality(gfsSt.keep) <= SumOver(Budgets, GFSClasses)
    /\ gfsSt.keep \subseteq UNION {Fillers(k) : k \in GFSClasses}
    /\ ((\A k \in GFSClasses : Budgets[k] = 0) \/ gfsInput = <<>>) => gfsSt.keep = {}
    /\ \A i \in DOMAIN gfsRet : Cardinality(gfsRet[i]) <= SumOver(Budgets, GFSClasses)

\* a returned call whose daily budget of 1 was used up although the list held
\* backups of two days, and that kept two backups
C14_Witness ==
    /\ GFSReturned
    /\ Budgets[2] = 1 /\ gfsSt.kept[2] = 1
    /\ Cardinality({KeyOf(2, id) : id \in Range(gfsInput)}) >= 2
    /\ Cardinality(gfsSt.keep) = 2
    /\ Len(gfsInput) = 3

\* the backups of the list that come before id (the newer ones)
Before(id) ==
    {gfsInput[j] : j \in {i \in DOMAIN gfsInput :
                             \A m \in DOMAIN gfsInput : gfsInput[m] = id => i < m}}

NewestOfKey(k, id) == \A other \in Before(id) : KeyOf(k, other) # KeyOf(k, id)

\* C15 as stated: no two members of the keep-set share the key of a class
\* with a positive budget.
C15_NoTwoKeptShareAKey ==
    GFSReturned =>
        \A k \in GFSClasses : Budgets[k] > 0 =>
            \A a, b \in gfsSt.keep : a # b => KeyOf(k, a) # KeyOf(k, b)

\* C15 as amended: in every class no two of the backups that filled its slots
\* share a key, and each of them is the newest backup of the list with its
\* key; two members of the keep-set may share a key of a class when another
\* class keeps one of them.
C15_OneFillerPerClassKey ==
    \A k \in GFSClasses :
        /\ \A a, b \in Fillers(k) : a # b => KeyOf(k, a) # KeyOf(k, b)
        /\ \A a \in Fillers(k) : Budgets[k] > 0 /\ NewestOfKey(k, a)
        /\ gfsSt.seen[k] = {KeyOf(k, a) : a \in Fillers(k)}

\* a returned call with two daily slots and one weekly slot: the newest backup
\* fills a slot of both classes, the backup of the day before, in the same ISO
\* week, fills the second daily slot
C15_Witness ==
    /\ GFSReturned
    /\ Budgets = <<0, 2, 1, 0, 0>>
    /\ \E a, b \in gfsSt.keep :
          /\ a # b
          /\ KeyOf(3, a) = KeyOf(3, b)
          /\ a \in Fillers(2) /\ a \in Fillers(3)
          /\ b \in Fillers(2) /\ b \notin Fillers(3)
    /\ \E c \in Range(gfsInput) \ gfsSt.keep : \E a \in Fillers(2) : KeyOf(2, c) = KeyOf(2, a)

\* C16: every backup in the keep-set is the newest backup of its key in a
\* class with a positive budget, so a backup that is the newest of its key in
\* no class is not kept; a backup that fills slots of several classes takes
\* one slot of each.
C16_KeptIsNewestOfSomeKey ==
    /\ \A id \in gfsSt.keep :
          \E k \in GFSClasses : Budgets[k] > 0 /\ NewestOfKey(k, id)
    /\ \A id \in Range(gfsInput) :
          (\A k \in GFSClasses : Budgets[k] > 0 => ~NewestOfKey(k, id)) =>
              id \notin gfsSt.keep
    /\ \A k \in GFSClasses : gfsSt.kept[k] = Cardinality(Fillers(k))

\* a returned call in which one backup filled a slot of three classes and used
\* one slot of each, and a backup sharing all its keys was left out
C16_Witness ==
    /\ GFSReturned
    /\ \E id \in gfsSt.keep :
          /\ Cardinality({k \in GFSClasses : id \in Fillers(k)}) = 3
          /\ \A k \in GFSClasses : id \in Fillers(k) => gfsSt.kept[k] = 1
          /\ \E other \in Range(gfsInput) \ gfsSt.keep :
                \A k \in GFSClasses : KeyOf(k, other) = KeyOf(k, id)

\* C17 as stated: the second of two consecutive ticks, no backup made between
\* them, gets the keep-set the first one got.
C17_SecondTickSameKeepSet ==
    Len(gfsRet) = 2 => gfsRet[2] = gfsRet[1]

-----------------------------------------------------------------------------
(* Properties of the size phase (Spec).                                    *)

Capped == configs[1].cap > 0

\* the tick is over, its size phase with it
TickOver(t) == t < ticks \/ (t = ticks /\ pc = "wait")

OkBefore(n) == {handed[j].id : j \in {i \in DOMAIN handed : i < n /\ handed[i].result = "ok"}}

\* the catalog as the size phase of tick t found it
CatalogAtSize(t) ==
    BackupIds \ {handed[i].id : i \in {j \in DOMAIN handed :
                    /\ handed[j].result = "ok"
                    /\ \/ handed[j].tick < t
                       \/ handed[j].tick = t /\ handed[j].phase = "retention"}}

\* the non-in-progress backups of database 1 among S
Evictable(S) == {id \in S : rows[id].db = 1 /\ rows[id].status # "IN_PROGRESS"}

Oldest(S) == {id \in S : \A other \in S : rows[id].createdAt <= rows[other].createdAt}

StuckOnRecent ==
    /\ pc = "size" /\ cur = 1
    /\ GetTotalSizeByDatabase(catalog, rows, 1) > configs[1].cap
    /\ Evictable(catalog) # {}
    /\ \A id \in Oldest(Evictable(catalog)) : now - rows[id].createdAt < recentBackupGracePeriod

SizeHanded == {i \in DOMAIN handed : handed[i].phase = "size" /\ handed[i].db = 1}

\* C19: when the size loop finds database 1 over its cap with a recent oldest
\* non-in-progress backup, no non-in-progress backup of the database is past
\* the grace period, and the loop's next step ends the work on the database
\* without handing anything to DeleteBackup; the size phase does not come
\* back to the database in that tick and removes none of its backups then.
C19_StopsOnRecentOldest ==
    [][ /\ StuckOnRecent =>
            /\ \A id \in Evictable(catalog) : now - rows[id].createdAt < recentBackupGracePeriod
            /\ now' = now => (cur' = 0 /\ catalog' = catalog /\ handed' = handed)
        /\ (pc = "size" /\ cur = 0 /\ <<"size", 1>> \in visited) => cur' # 1
        /\ (pc = "size" /\ cur # 1) =>
              {i \in DOMAIN handed' : handed'[i].phase = "size" /\ handed'[i].db = 1}
                 = SizeHanded
      ]_vars

\* a finished tick with a cap of 1: the size phase removed the old backup and
\* stopped at two recent completed ones, still over the cap
C19_Witness ==
    /\ pc = "wait" /\ ticks = 1 /\ faults = 0
    /\ configs[1].cap = 1
    /\ Cardinality(SizeHanded) = 1
    /\ GetTotalSizeByDatabase(catalog, rows, 1) = 2
    /\ \A id \in Evictable(catalog) : now - rows[id].createdAt < recentBackupGracePeriod

\* C20: every backup the size phase hands to DeleteBackup is an oldest of the
\* non-in-progress backups, completed or failed, that the database has at that
\* moment: none is removed by the size phase while an older one remains.
C20_SizeEvictsOldestFirst ==
    \A i \in SizeHanded :
        /\ handed[i].status # "IN_PROGRESS"
        /\ \A id \in Evictable(BackupIds \ OkBefore(i)) :
              rows[handed[i].id].createdAt <= rows[id].createdAt

\* a finished tick in which the size phase removed an old failed backup first
\* and the older of two completed ones next
C20_Witness ==
    /\ pc = "wait" /\ ticks = 1
    /\ \E i, j \in SizeHanded :
          /\ i < j
          /\ handed[i].status = "FAILED" /\ handed[i].result = "ok"
          /\ handed[j].status = "COMPLETED" /\ handed[j].result = "ok"
          /\ rows[handed[i].id].createdAt < rows[handed[j].id].createdAt
    /\ \E id \in catalog : rows[id].db = 1 /\ rows[id].status = "COMPLETED"

-----------------------------------------------------------------------------
(* Properties of the tick as a whole (Spec).                               *)

\* the step in which cleanExceededBackupsForDatabase returns nil
SizeReturnsNil == pc = "size" /\ cur # 0 /\ cur' = 0 /\ faults' = faults

EvictableOf(S, db) == {id \in S : rows[id].db = db /\ rows[id].status # "IN_PROGRESS"}

\* C21: whenever cleanExceededBackupsForDatabase returns without an error, the
\* completed backups of its database total the cap or less, or the database
\* has no non-in-progress backup, or its oldest non-in-progress backup is
\* recent.
C21_SizeLoopReturnsOnStop ==
    [][ SizeReturnsNil =>
          \/ SumSizes({id \in catalog' : rows[id].db = cur /\ rows[id].status = "COMPLETED"},
                      rows) <= configs[cur].cap
          \/ EvictableOf(catalog', cur) = {}
          \/ \A id \in Oldest(EvictableOf(catalog', cur)) :
                now' - rows[id].createdAt < recentBackupGracePeriod
      ]_vars

\* the size phase has left database 1 after removing two of three completed
\* backups, the third one being exactly the cap
C21_Witness ==
    /\ pc = "size" /\ cur = 0 /\ <<"size", 1>> \in visited /\ faults = 0
    /\ configs[1].cap = 1
    /\ Cardinality({i \in SizeHanded : handed[i].result = "ok"}) = 2
    /\ Cardinality(EvictableOf(catalog, 1)) = 1
    /\ \A id \in EvictableOf(catalog, 1) : rows[id].status = "COMPLETED"

Enabled == {db \in Databases : configs[db].enabled}

RetentionVisited == {db \in Databases : <<"retention", db>> \in visited}

SizeVisited == {db \in Databases : <<"size", db>> \in visited}

\* the failures of the running tick's retention phase that left a trace: the
\* deletions that failed, and the load of the configs when no config was
\* looked at
RetentionErrors ==
    Cardinality({i \in DOMAIN handed : /\ handed[i].tick = ticks
                                       /\ handed[i].phase = "retention"
                                       /\ handed[i].result # "ok"})
    + (IF RetentionVisited = {} THEN 1 ELSE 0)

\* C22: in every tick the retention phase is through with all enabled
\* databases before the size phase begins, the size phase starts from the
\* catalog the retention phase left and only removes backups still in it, and
\* the size phase runs in every tick, also when the retention phase failed:
\* from the retention phase the loop goes nowhere but to the size phase.
C22_TickIsSequential ==
    /\ [](pc = "size" =>
            /\ cands = <<>>
            /\ RetentionVisited = Enabled \/ (RetentionVisited = {} /\ faults >= 1))
    /\ [](\A i, j \in DOMAIN handed :
            (i < j /\ handed[i].tick = handed[j].tick /\ handed[i].phase = "size")
               => handed[j].phase = "size")
    /\ [](\A i \in DOMAIN handed :
            handed[i].phase = "size" => handed[i].id \in CatalogAtSize(handed[i].tick))
    /\ []((pc = "wait" /\ ticks >= 1 /\ RetentionErrors >= 1 /\ faults = RetentionErrors)
            => SizeVisited = {db \in Enabled : configs[db].cap > 0})
    /\ [][ /\ pc' # pc =>
                <<pc, pc'>> \in {<<"wait", "retention">>, <<"retention", "size">>,
                                 <<"size", "wait">>}
           /\ (pc = "retention" /\ pc' = "size") =>
                (cur = 0 /\ todo = <<>> /\ catalog' = catalog /\ handed' = handed)
         ]_vars

\* a finished tick whose retention phase could not load the configs and whose
\* size phase removed a backup of database 1
C22_Witness ==
    /\ pc = "wait" /\ ticks = 1
    /\ RetentionVisited = {} /\ faults = 1
    /\ SizeVisited = {1, 3}
    /\ \E i \in SizeHanded : handed[i].result = "ok"

CappedEnabled == {db \in Enabled : configs[db].cap > 0}

\* the deletions of the running tick's retention phase that failed
RetentionDeleteErrors ==
    Cardinality({i \in DOMAIN handed : /\ handed[i].tick = ticks
                                       /\ handed[i].phase = "retention"
                                       /\ handed[i].result # "ok"})

-----------------------------------------------------------------------------
(* Cancellation of Run (RunSpec).                                          *)

\* C24 as stated: once the context passed to Run is cancelled no new tick
\* begins.
C24_NoTickAfterCancel == [][ctxDone => ticks' = ticks]_vars

-----------------------------------------------------------------------------
(* The period algebra on its own: ToDuration and CompareTo are applied to  *)
(* three period strings, known and unknown.                                *)

\* what a call did: it returned a value, or it panicked
Returned(v) == [panic |-> FALSE, value |-> v]
Panicked == [panic |-> TRUE, value |-> 0]

\* default: panic("unknown period: " + string(p))
ToDurationPanics(p) == p \notin Periods

\* p.ToDuration() as a call
CallToDuration(p) == IF ToDurationPanics(p) THEN Panicked ELSE Returned(ToDuration(p))

\* the comparison by duration alone, FOREVER not set apart
CompareToByDuration(p, other) ==
    IF p = other THEN Returned(0)
    ELSE IF ToDurationPanics(p) \/ ToDurationPanics(other) THEN Panicked
    ELSE IF ToDuration(p) < ToDuration(other) THEN Returned(-1)
    ELSE IF ToDuration(p) > ToDuration(other) THEN Returned(1)
    ELSE Returned(0)

\* TimePeriod.CompareTo
CompareTo(p, other) ==
    IF p = other THEN Returned(0)
    ELSE IF ToDurationPanics(p) \/ ToDurationPanics(other) THEN Panicked
    ELSE IF p = "FOREVER" THEN Returned(1)
    ELSE IF other = "FOREVER" THEN Returned(-1)
    ELSE IF ToDuration(p) < ToDuration(other) THEN Returned(-1)
    ELSE IF ToDuration(p) > ToDuration(other) THEN Returned(1)
    ELSE Returned(0)

\* the strings a TimePeriod may hold: the eleven periods, the empty string
\* and a string that names no period
PeriodStrings == Periods \cup {"", "HOUR"}

PerArgs == 1..3

\* everything but the period variables at rest
PerRest ==
    /\ now = Now0
    /\ rows = <<>>
    /\ catalog = {}
    /\ blobs = {}
    /\ configs = [db \in Databases |-> Disabled]
    /\ listeners = <<>>
    /\ PipeIdle
    /\ LoopIdle
    /\ RunIdle
    /\ GFSIdle

PerInit ==
    /\ PerRest
    /\ valConfig = <<>> /\ valPlan = <<>> /\ valEnv = FALSE
    /\ valOut = "none" /\ valClean = NotCleaned
    /\ perIn \in [PerArgs -> PeriodStrings]
    /\ perOut = [done |-> {}, dur |-> <<>>, cmp |-> <<>>]

PerToDuration ==
    /\ "ToDuration" \notin perOut.done
    /\ perOut' = [perOut EXCEPT !.done = @ \cup {"ToDuration"},
                                !.dur = [i \in PerArgs |-> CallToDuration(perIn[i])]]
    /\ UNCHANGED <<now, storeVars, listeners, pipeVars, loopVars, ctxDone, runVars,
                   gfsVars, valVars, perIn>>

PerCompareTo ==
    /\ "CompareTo" \notin perOut.done
    /\ perOut' = [perOut EXCEPT !.done = @ \cup {"CompareTo"},
                                !.cmp = [i \in PerArgs |-> [j \in PerArgs |->
                                            CompareTo(perIn[i], perIn[j])]]]
    /\ UNCHANGED <<now, storeVars, listeners, pipeVars, loopVars, ctxDone, runVars,
                   gfsVars, valVars, perIn>>

PerNext == PerToDuration \/ PerCompareTo

PeriodSpec == PerInit /\ [][PerNext]_vars

\* the periods from the shortest to the longest
PeriodsInOrder ==
    <<"DAY", "WEEK", "MONTH", "3_MONTH", "6_MONTH", "YEAR", "2_YEARS", "3_YEARS",
      "4_YEARS", "5_YEARS", "FOREVER">>

Rank(p) == CHOOSE i \in DOMAIN PeriodsInOrder : PeriodsInOrder[i] = p

Compared == "CompareTo" \in perOut.done

AllKnown == \A i \in PerArgs : perIn[i] \in Periods

Cmp(i, j) == perOut.cmp[i][j].value

\* C28: on the eleven periods CompareTo never panics and is a total order with
\* FOREVER on top: a period compares 0 with itself and with nothing else,
\* compare(a, b) = -compare(b, a), it is transitive, it orders the periods as
\* DAY < WEEK < MONTH < 3_MONTH < 6_MONTH < YEAR < 2_YEARS < 3_YEARS < 4_YEARS
\* < 5_YEARS < FOREVER, and every period but FOREVER compares -1 with FOREVER.
C28_CompareIsTotalOrder ==
    (Compared /\ AllKnown) =>
        /\ \A i, j \in PerArgs :
              /\ ~perOut.cmp[i][j].panic
              /\ Cmp(i, j) \in {-1, 0, 1}
              /\ Cmp(i, j) = 0 <=> perIn[i] = perIn[j]
              /\ Cmp(i, j) = 0 - Cmp(j, i)
              /\ Cmp(i, j) = -1 <=> Rank(perIn[i]) < Rank(perIn[j])
              /\ (perIn[j] = "FOREVER" /\ perIn[i] # "FOREVER") => Cmp(i, j) = -1
        /\ (Cmp(1, 2) <= 0 /\ Cmp(2, 3) <= 0) => Cmp(1, 3) <= 0
        /\ (Cmp(1, 2) < 0 /\ Cmp(2, 3) <= 0) => Cmp(1, 3) < 0
        /\ (Cmp(1, 2) <= 0 /\ Cmp(2, 3) < 0) => Cmp(1, 3) < 0

\* 5_YEARS, FOREVER and DAY were compared with each other
C28_Witness ==
    /\ Compared
    /\ perIn = <<"5_YEARS", "FOREVER", "DAY">>
    /\ Cmp(1, 2) = -1 /\ Cmp(2, 3) = 1 /\ Cmp(3, 1) = -1

-----------------------------------------------------------------------------
(* The config validator: Validate is called on a config and a plan, and    *)
(* the cleaner then picks the config up.                                   *)

\* if b.BackupIntervalID == uuid.Nil && b.BackupInterval == nil
CheckInterval(b) ==
    IF ~b.BackupIntervalID /\ ~b.BackupInterval THEN "backup interval is required" ELSE ""

\* the plan's period taken as exclusive: CompareTo(...) >= 0
ValidateRetentionPolicyExclusive(b, plan) ==
    CASE b.policy \in {"TIME_PERIOD", ""} ->
            IF b.period = "" THEN "retention time period is required"
            ELSE IF plan.MaxStoragePeriod # "FOREVER"
            THEN IF CompareTo(b.period, plan.MaxStoragePeriod).panic THEN "panic"
                 ELSE IF CompareTo(b.period, plan.MaxStoragePeriod).value >= 0
                 THEN "storage period exceeds plan limit"
                 ELSE ""
            ELSE ""
      [] b.policy = "COUNT" ->
            IF b.count <= 0 THEN "retention count must be greater than 0" ELSE ""
      [] b.policy = "GFS" ->
            IF \A k \in GFSClasses : b.gfs[k] <= 0
            THEN "at least one GFS retention field must be greater than 0"
            ELSE ""
      [] OTHER -> "invalid retention policy type"

\* the plan's period limit applied to every policy type
ValidateRetentionPolicyLimitForAll(b, plan) ==
    IF b.policy \in {"COUNT", "GFS"} /\ b.period # ""
       /\ plan.MaxStoragePeriod # "FOREVER"
    THEN IF CompareTo(b.period, plan.MaxStoragePeriod).panic THEN "panic"
         ELSE IF CompareTo(b.period, plan.MaxStoragePeriod).value > 0
         THEN "storage period exceeds plan limit"
         ELSE ""
    ELSE CASE b.policy \in {"TIME_PERIOD", ""} ->
                 IF b.period = "" THEN "retention time period is required"
                 ELSE IF plan.MaxStoragePeriod # "FOREVER"
                 THEN IF CompareTo(b.period, plan.MaxStoragePeriod).panic THEN "panic"
                      ELSE IF CompareTo(b.period, plan.MaxStoragePeriod).value > 0
                      THEN "storage period exceeds plan limit"
                      ELSE ""
                 ELSE ""
           [] b.policy = "COUNT" ->
                 IF b.count <= 0 THEN "retention count must be greater than 0" ELSE ""
           [] b.policy = "GFS" ->
                 IF \A k \in GFSClasses : b.gfs[k] <= 0
                 THEN "at least one GFS retention field must be greater than 0"
                 ELSE ""
           [] OTHER -> "invalid retention policy type"

\* BackupConfig.validateRetentionPolicy: "" for nil, the error's text, or
\* "panic" when CompareTo panics
ValidateRetentionPolicy(b, plan) ==
    CASE b.policy \in {"TIME_PERIOD", ""} ->
            IF b.period = "" THEN "retention time period is required"
            ELSE IF plan.MaxStoragePeriod # "FOREVER"
            THEN IF CompareTo(b.period, plan.MaxStoragePeriod).panic THEN "panic"
                 ELSE IF CompareTo(b.period, plan.MaxStoragePeriod).value > 0
                 THEN "storage period exceeds plan limit"
                 ELSE ""
            ELSE ""
      [] b.policy = "COUNT" ->
            IF b.count <= 0 THEN "retention count must be greater than 0" ELSE ""
      [] b.policy = "GFS" ->
            IF \A k \in GFSClasses : b.gfs[k] <= 0
            THEN "at least one GFS retention field must be greater than 0"
            ELSE ""
      [] OTHER -> "invalid retention policy type"

\* if b.IsRetryIfFailed && b.MaxFailedTriesCount <= 0
CheckRetry(b) ==
    IF b.IsRetryIfFailed /\ b.MaxFailedTriesCount <= 0
    THEN "max failed tries count must be greater than 0" ELSE ""

\* if b.Encryption != "" && != NONE && != ENCRYPTED
CheckEncryption(b) ==
    IF b.Encryption # "" /\ b.Encryption # "NONE" /\ b.Encryption # "ENCRYPTED"
    THEN "encryption must be NONE or ENCRYPTED" ELSE ""

\* if config.GetEnv().IsCloud { if b.Encryption != ENCRYPTED {...} }
CheckCloud(b, env) ==
    IF env.IsCloud /\ b.Encryption # "ENCRYPTED"
    THEN "encryption is mandatory for cloud storage" ELSE ""

\* if b.MaxBackupSizeMB < 0
CheckMaxBackupSize(b) ==
    IF b.MaxBackupSizeMB < 0 THEN "max backup size must be non-negative" ELSE ""

\* if b.MaxBackupsTotalSizeMB < 0
CheckTotalSize(b) ==
    IF b.cap < 0 THEN "max backups total size must be non-negative" ELSE ""

\* the gate that takes 0 in the config for a value within the plan
PlanBackupSizeGateZeroPasses(b, plan) ==
    IF plan.MaxBackupSizeMB > 0 /\ b.MaxBackupSizeMB > plan.MaxBackupSizeMB
    THEN "max backup size exceeds plan limit" ELSE ""

\* if plan.MaxBackupSizeMB > 0 { if b.MaxBackupSizeMB == 0 || b.MaxBackupSizeMB > plan... }
PlanBackupSizeGate(b, plan) ==
    IF plan.MaxBackupSizeMB > 0
       /\ (b.MaxBackupSizeMB = 0 \/ b.MaxBackupSizeMB > plan.MaxBackupSizeMB)
    THEN "max backup size exceeds plan limit" ELSE ""

\* if plan.MaxBackupsTotalSizeMB > 0 { if b.MaxBackupsTotalSizeMB == 0 || ... > plan... }
PlanTotalSizeGate(b, plan) ==
    IF plan.MaxBackupsTotalSizeMB > 0
       /\ (b.cap = 0 \/ b.cap > plan.MaxBackupsTotalSizeMB)
    THEN "max total backups size exceeds plan limit" ELSE ""

\* the plan gates looked at before the retention policy
ValidateChecksGatesFirst(b, plan, env) ==
    << CheckInterval(b), PlanBackupSizeGate(b, plan), PlanTotalSizeGate(b, plan),
       ValidateRetentionPolicy(b, plan), CheckRetry(b), CheckEncryption(b),
       CheckCloud(b, env), CheckMaxBackupSize(b), CheckTotalSize(b) >>

\* the checks of Validate in the order of its statements
ValidateChecks(b, plan, env) ==
    << CheckInterval(b), ValidateRetentionPolicy(b, plan), CheckRetry(b),
       CheckEncryption(b), CheckCloud(b, env), CheckMaxBackupSize(b),
       CheckTotalSize(b), PlanBackupSizeGate(b, plan), PlanTotalSizeGate(b, plan) >>

\* each check returns as soon as it fails; return nil at the end
FirstFailure(checks) ==
    IF \A i \in DOMAIN checks : checks[i] = "" THEN "ok"
    ELSE checks[Min({i \in DOMAIN checks : checks[i] # ""})]

\* BackupConfig.Validate
Validate(b, plan, env) == FirstFailure(ValidateChecks(b, plan, env))

\* what cleanByRetentionPolicy does with a config: the strategy its switch
\* selects, and whether the strategy returns at once, panics in ToDuration or
\* goes on to query the repository
CleanerDoes(cfg) ==
    [strategy |-> RetentionStrategy(cfg.policy),
     outcome |->
        IF RetentionStrategy(cfg.policy) = "cleanByTimePeriod"
           /\ cfg.period # "" /\ cfg.period # "FOREVER" /\ ToDurationPanics(cfg.period)
        THEN "panic"
        ELSE IF RetentionStrategy(cfg.policy) = "none" THEN "skip"
        ELSE IF RetentionQueries(cfg) THEN "query" ELSE "skip"]

MaxSizeMb == 2
MaxPlanSizeMb == 1

\* createValidBackupConfig of the tests, the sizes scaled down
ValidBackupConfig ==
    [enabled |-> TRUE, policy |-> "TIME_PERIOD", period |-> "MONTH", count |-> 0,
     gfs |-> NoGFS, cap |-> MaxPlanSizeMb, MaxBackupSizeMB |-> MaxPlanSizeMb,
     BackupIntervalID |-> TRUE, BackupInterval |-> TRUE,
     IsRetryIfFailed |-> FALSE, MaxFailedTriesCount |-> MaxPlanSizeMb,
     Encryption |-> "NONE"]

\* createUnlimitedPlan of the tests
UnlimitedPlan ==
    [MaxBackupSizeMB |-> 0, MaxBackupsTotalSizeMB |-> 0, MaxStoragePeriod |-> "FOREVER"]

\* the retention settings tried together with every other field
ValRetentions ==
    { <<"TIME_PERIOD", "", 0, NoGFS>>, <<"TIME_PERIOD", "DAY", 0, NoGFS>>,
      <<"TIME_PERIOD", "YEAR", 0, NoGFS>>, <<"TIME_PERIOD", "HOUR", 0, NoGFS>>,
      <<"", "", 0, NoGFS>>, <<"", "YEAR", 0, NoGFS>>,
      <<"COUNT", "", 0, NoGFS>>, <<"COUNT", "", 1, NoGFS>>,
      <<"GFS", "", 0, NoGFS>>, <<"GFS", "", 0, <<0, 1, 0, 0, 0>>>>,
      <<"COUNT", "YEAR", 1, NoGFS>>, <<"GFS", "YEAR", 0, <<0, 1, 0, 0, 0>>>>,
      <<"INVALID", "DAY", 1, NoGFS>> }

\* the inputs of Validate: every period string against every plan period on
\* an otherwise valid config, with and without an interval; and the retention
\* settings above with every combination of the other fields
ValInputs ==
    { <<[ValidBackupConfig EXCEPT !.policy = t, !.period = p,
                                  !.BackupIntervalID = i, !.BackupInterval = i],
        [UnlimitedPlan EXCEPT !.MaxStoragePeriod = q], [IsCloud |-> FALSE]>> :
         t \in {"TIME_PERIOD", ""}, p \in PeriodStrings, q \in Periods, i \in BOOLEAN }
    \cup
    { <<[enabled |-> TRUE, policy |-> r[1], period |-> r[2], count |-> r[3], gfs |-> r[4],
         cap |-> total, MaxBackupSizeMB |-> size,
         BackupIntervalID |-> iv[1], BackupInterval |-> iv[2],
         IsRetryIfFailed |-> rt[1], MaxFailedTriesCount |-> rt[2], Encryption |-> enc],
        [MaxBackupSizeMB |-> ps, MaxBackupsTotalSizeMB |-> pt, MaxStoragePeriod |-> q],
        [IsCloud |-> cloud]>> :
         r \in ValRetentions, total \in -1..MaxSizeMb, size \in -1..MaxSizeMb,
         iv \in {<<TRUE, TRUE>>, <<TRUE, FALSE>>, <<FALSE, FALSE>>},
         rt \in {<<FALSE, 0>>, <<TRUE, 0>>, <<TRUE, 1>>},
         enc \in {"", "NONE", "ENCRYPTED", "INVALID"},
         ps \in 0..MaxPlanSizeMb, pt \in 0..MaxPlanSizeMb, q \in {"MONTH", "FOREVER"},
         cloud \in BOOLEAN }

ValInit ==
    /\ PerRest
    /\ perIn = <<>> /\ perOut = <<>>
    /\ \E in \in ValInputs :
          /\ valConfig = in[1]
          /\ valPlan = in[2]
          /\ valEnv = in[3]
    /\ valOut = "none"
    /\ valClean = NotCleaned

\* the platform validates the config before it saves it
ValValidate ==
    /\ valOut = "none"
    /\ valOut' = Validate(valConfig, valPlan, valEnv)
    /\ UNCHANGED <<now, storeVars, listeners, pipeVars, loopVars, ctxDone, runVars,
                   gfsVars, perVars, valConfig, valPlan, valEnv, valClean>>

\* a tick of the cleaner comes to the config as it is stored: rows written
\* before the validator existed are read as well
ValClean ==
    /\ valOut # "none" /\ valClean = NotCleaned
    /\ valClean' = CleanerDoes(valConfig)
    /\ UNCHANGED <<now, storeVars, listeners, pipeVars, loopVars, ctxDone, runVars,
                   gfsVars, perVars, valConfig, valPlan, valEnv, valOut>>

ValNext == ValValidate \/ ValClean

ValSpec == ValInit /\ [][ValNext]_vars

Validated == valOut # "none"


\* the checks in the order the specification lists them
ListedChecks ==
    << CheckInterval(valConfig), ValidateRetentionPolicy(valConfig, valPlan),
       CheckRetry(valConfig), CheckEncryption(valConfig), CheckCloud(valConfig, valEnv),
       CheckMaxBackupSize(valConfig), CheckTotalSize(valConfig),
       PlanBackupSizeGate(valConfig, valPlan), PlanTotalSizeGate(valConfig, valPlan) >>

Failing == {i \in DOMAIN ListedChecks : ListedChecks[i] # ""}

\* C25: Validate returns the failure of the earliest failing check in the
\* order interval, retention policy, retry tries, encryption value, cloud
\* encryption, negative max size, negative total size, plan max-size gate,
\* plan total-size gate, whatever checks fail after it; it returns nil exactly
\* when no check fails.
C25_FirstFailureInFixedOrder ==
    Validated =>
        /\ valOut = "ok" <=> Failing = {}
        /\ \A i \in Failing :
              (\A j \in Failing : i <= j) => valOut = ListedChecks[i]

\* the storage period and both plan gates fail, the interval is set: the
\* error is the one of the period
C25_Witness ==
    /\ Validated
    /\ {2, 8, 9} \subseteq Failing /\ 1 \notin Failing
    /\ valConfig.period = "YEAR" /\ valPlan.MaxStoragePeriod = "MONTH"
    /\ valOut = "storage period exceeds plan limit"


\* the checks listed before check n pass
EarlierPass(n) == \A i \in Failing : i >= n

\* C26: when the plan sets maxBackupSizeMb above 0 and the checks before the
\* gate pass, Validate returns "max backup size exceeds plan limit" exactly
\* when the config's value is 0 or above the plan's, so a value equal to the
\* plan's passes; the same for maxBackupsTotalSizeMb and its error; a plan
\* value of 0 never yields the error of its gate.
C26_PlanSizeGates ==
    Validated =>
        /\ (EarlierPass(8) /\ valPlan.MaxBackupSizeMB > 0) =>
              (valOut = "max backup size exceeds plan limit"
                 <=> \/ valConfig.MaxBackupSizeMB = 0
                     \/ valConfig.MaxBackupSizeMB > valPlan.MaxBackupSizeMB)
        /\ (EarlierPass(9) /\ valPlan.MaxBackupsTotalSizeMB > 0) =>
              (valOut = "max total backups size exceeds plan limit"
                 <=> \/ valConfig.cap = 0
                     \/ valConfig.cap > valPlan.MaxBackupsTotalSizeMB)
        /\ valPlan.MaxBackupSizeMB = 0 => valOut # "max backup size exceeds plan limit"
        /\ valPlan.MaxBackupsTotalSizeMB = 0 =>
              valOut # "max total backups size exceeds plan limit"
        /\ (EarlierPass(8) /\ valPlan.MaxBackupSizeMB = 0 /\ valPlan.MaxBackupsTotalSizeMB = 0)
              => valOut = "ok"

\* an otherwise valid config that leaves maxBackupSizeMb at 0 under a plan
\* that caps it, and has its total size exactly at the plan's cap
C26_Witness ==
    /\ Validated
    /\ EarlierPass(8)
    /\ valConfig.MaxBackupSizeMB = 0 /\ valPlan.MaxBackupSizeMB > 0
    /\ valConfig.cap = valPlan.MaxBackupsTotalSizeMB /\ valConfig.cap > 0
    /\ valOut = "max backup size exceeds plan limit"


\* a TIME_PERIOD or empty-type config with a period set
TimePeriodConfig == valConfig.policy \in {"TIME_PERIOD", ""} /\ valConfig.period # ""

\* the config's period compares greater than the plan's
AbovePlanPeriod ==
    /\ valConfig.period \in Periods
    /\ valPlan.MaxStoragePeriod # "FOREVER"
    /\ \/ valConfig.period = "FOREVER"
       \/ Rank(valConfig.period) > Rank(valPlan.MaxStoragePeriod)

\* C27 as stated: for a TIME_PERIOD or empty-type config with a period set,
\* Validate fails with "storage period exceeds plan limit" if and only if the
\* plan's period is not FOREVER and the config's period compares greater.
C27_PeriodLimitIff ==
    (Validated /\ TimePeriodConfig) =>
        (valOut = "storage period exceeds plan limit" <=> AbovePlanPeriod)

\* C27: for a TIME_PERIOD or empty-type config with a period set and a backup
\* interval, Validate fails with "storage period exceeds plan limit" if and
\* only if the plan's period is not FOREVER and the config's period compares
\* greater: a period equal to the plan's does not fail so, the next longer
\* one does, FOREVER does against every finite plan period, and under a
\* FOREVER plan the error never comes; without the interval the error is
\* "backup interval is required" whatever the periods.
C27_PeriodLimitIffIntervalSet ==
    (Validated /\ TimePeriodConfig) =>
        /\ (valConfig.BackupIntervalID \/ valConfig.BackupInterval) =>
              (valOut = "storage period exceeds plan limit" <=> AbovePlanPeriod)
        /\ ~(valConfig.BackupIntervalID \/ valConfig.BackupInterval) =>
              valOut = "backup interval is required"
        /\ valOut = "storage period exceeds plan limit" => AbovePlanPeriod
        /\ valPlan.MaxStoragePeriod = "FOREVER" =>
              valOut # "storage period exceeds plan limit"
        /\ valConfig.period = valPlan.MaxStoragePeriod =>
              valOut # "storage period exceeds plan limit"

\* a config with an interval whose period is one step above the plan's
C27_Witness ==
    /\ Validated /\ TimePeriodConfig
    /\ valConfig.BackupIntervalID
    /\ valConfig.period = "3_MONTH" /\ valPlan.MaxStoragePeriod = "MONTH"
    /\ valOut = "storage period exceeds plan limit"


\* the config carries a string that names no period
UnknownPeriod == valConfig.period \notin Periods /\ valConfig.period # ""

\* C29 as stated: validating a TIME_PERIOD config that carries an unknown
\* period fails against every plan, so no such config passes validation and
\* reaches the cleaner.
C29_UnknownPeriodNeverValidates ==
    (Validated /\ valConfig.policy \in {"TIME_PERIOD", ""} /\ UnknownPeriod) =>
        valOut # "ok"


\* the config with its empty type written out as TIME_PERIOD
AsTimePeriod == [valConfig EXCEPT !.policy = "TIME_PERIOD"]

\* C30: a config whose retentionPolicyType is empty gets from Validate what
\* the same config with type TIME_PERIOD gets, against every plan, and the
\* cleaner sends it to cleanByTimePeriod, where it is treated as that config
\* is: the validator and the cleaner agree that an empty type is TIME_PERIOD.
C30_EmptyTypeIsTimePeriod ==
    valConfig.policy = "" =>
        /\ Validated =>
              /\ valOut = Validate(AsTimePeriod, valPlan, valEnv)
              /\ valOut # "invalid retention policy type"
              /\ valConfig.period = "" =>
                    valOut \in {"backup interval is required",
                                "retention time period is required"}
        /\ valClean # NotCleaned =>
              /\ valClean.strategy = "cleanByTimePeriod"
              /\ valClean = CleanerDoes(AsTimePeriod)
              /\ valClean.outcome = "query" <=>
                    (valConfig.period \in Periods /\ valConfig.period # "FOREVER")

\* an empty-type config with period YEAR was turned down for its period
\* under a plan of MONTH, and the cleaner, reading it, queries the backups
\* older than a year
C30_Witness ==
    /\ valConfig.policy = "" /\ valConfig.period = "YEAR"
    /\ valPlan.MaxStoragePeriod = "MONTH"
    /\ valOut = "storage period exceeds plan limit"
    /\ valClean = [strategy |-> "cleanByTimePeriod", outcome |-> "query"]

-----------------------------------------------------------------------------
(* Failures inside the phases and the frame of a tick (Spec).              *)

\* the DeleteBackup calls of the cleaner that returned an error
FailedHanded == {i \in DOMAIN handed : handed[i].result # "ok"}

\* every failure so far was a DeleteBackup call that returned an error: no
\* query and no load of the configs failed
OnlyDeletionsFailed == faults = Cardinality(FailedHanded)

\* under COUNT, the completed backups beyond position N of the list s
BeyondCount(s) == {s[i] : i \in {j \in DOMAIN s : j > configs[1].count}}

\* C31: a deletion that fails in the retention phase does not keep the
\* strategy from its other candidates: when no query failed, every candidate
\* of the tick that was past the grace period is handed to DeleteBackup,
\* under TIME_PERIOD (the backups before the cutoff), under COUNT (the
\* completed ones beyond the N newest) and under GFS (the completed ones
\* outside the keep-set), whatever deletions failed on the way.
C31_FailedDeletionDoesNotStopCandidates ==
    \A t \in 1..ticks :
        (RetentionOver(t) /\ OnlyDeletionsFailed) =>
            /\ (ToTimePeriod /\ FinitePeriod) =>
                  PastGrace(BeforeCutoff0(CatalogAt(t))) \subseteq RetentionHanded(t)
            /\ (configs[1].policy = "COUNT" /\ configs[1].count >= 1) =>
                  \E s \in FindByDatabaseIdAndStatus(CatalogAt(t), rows, 1, "COMPLETED") :
                      /\ PastGrace(BeyondCount(s)) \subseteq RetentionHanded(t)
                      /\ RetentionHanded(t) \subseteq BeyondCount(s)
            /\ GFSActive =>
                  \E s \in FindByDatabaseIdAndStatus(CatalogAt(t), rows, 1, "COMPLETED") :
                      LET K == BuildGFSKeepSet(s, rows, configs[1].gfs) IN
                      /\ PastGrace(CompletedAt(t) \ K) \subseteq RetentionHanded(t)
                      /\ RetentionHanded(t) \subseteq CompletedAt(t) \ K

\* the retention phase is over: the first deletion of the tick failed and a
\* later candidate of the same database was handed over and removed
C31_Witness ==
    /\ RetentionOver(1) /\ ticks = 1
    /\ \E i, j \in HandedIn(1, "retention", 1) :
          /\ i < j
          /\ handed[i].result # "ok"
          /\ handed[j].result = "ok"
          /\ handed[i].id # handed[j].id

-----------------------------------------------------------------------------
(* Order of the steps of the deletion pipeline (PipeSpec).                 *)

\* the calls the last DeleteBackup made after its listeners
AfterHooks == SubSeq(calls, HookCallCount + 1, Len(calls))

\* C32: a DeleteBackup run that resolved the storage handle calls, after the
\* lookup and in this order, DeleteFile on the main object, DeleteFile on the
\* metadata object whatever the first call answered, and DeleteByID last; the
\* metadata object is gone whenever its own deletion succeeded.
C32_MainThenMetadataThenRow ==
    (Called /\ NoHookFails /\ pre.env.storageFound) =>
        /\ AfterHooks = <<Call("GetStorageByID", lastId, ""),
                          Call("DeleteFile", lastId, ""),
                          Call("DeleteFile", lastId, ".metadata"),
                          Call("DeleteByID", lastId, "")>>
        /\ pre.env.metaOk => MetaBlob(lastId) \notin blobs
        /\ pre.env.fileOk => DataBlob(lastId) \notin blobs

\* the main object could not be deleted and stays, the metadata object was
\* deleted after it, the row went last
C32_Witness ==
    /\ Called /\ NoHookFails /\ pre.env.storageFound
    /\ ~pre.env.fileOk /\ pre.env.metaOk /\ pre.env.dbOk
    /\ DataBlob(lastId) \in blobs
    /\ MetaBlob(lastId) \in pre.blobs /\ MetaBlob(lastId) \notin blobs
    /\ lastId \in pre.catalog /\ lastId \notin catalog
    /\ calls[Len(calls)] = Call("DeleteByID", lastId, "")
    /\ calls[Len(calls) - 1] = Call("DeleteFile", lastId, ".metadata")

-----------------------------------------------------------------------------
(* Cancellation during a tick (RunFairSpec).                               *)

InTick == pc \in {"retention", "size"}

\* nothing of a tick is left to do
TickDone == cur = 0 /\ todo = <<>> /\ cands = <<>>

\* C33: cancelling the context does not abort a tick in flight: a tick that
\* has begun reaches the select again, cancelled or not; the function of Run
\* returns from the select or from its first ctx.Err() test, never from
\* inside a tick; cancelling changes nothing of the tick's work; and when it
\* has returned after a tick in which nothing failed, both phases went
\* through every enabled database and the backups due for deletion are gone.
C33_CancelDoesNotAbortTick ==
    /\ (InTick /\ ctxDone) ~> (pc = "wait" /\ TickDone)
    /\ [][(pc' = "returned" /\ pc # "returned") =>
             (pc \in {"start", "wait"} /\ ctxDone)]_vars
    /\ [][(ctxDone' /\ ~ctxDone) =>
             (loopVars' = loopVars /\ storeVars' = storeVars)]_vars
    /\ []((pc = "returned" /\ ticks >= 1) =>
             /\ TickDone
             /\ faults = 0 =>
                   /\ RetentionVisited = Enabled
                   /\ SizeVisited = CappedEnabled
                   /\ PastGrace(BeforeCutoff0(BackupIds)) \cap catalog = {})

\* the context is cancelled, the retention phase of the tick is in flight: a
\* backup has been deleted and another candidate is still to be handed over
C33_Witness ==
    /\ ctxDone /\ pc = "retention"
    /\ cur # 0 /\ cands # <<>>
    /\ \E i \in DOMAIN handed : handed[i].tick = ticks /\ handed[i].result = "ok"

-----------------------------------------------------------------------------
(* The frame of a tick (Spec).                                             *)

\* the rows of the databases whose config is not enabled
NotEnabledRows == {id \in BackupIds : ~configs[rows[id].db].enabled}

\* C34: a tick creates and modifies no catalog row: the fields of the rows
\* and the configs stay as they are, the catalog only loses rows, every row
\* that goes belongs to the database of the enabled config the cleaner is
\* working on at that step, and the backups of a database without an enabled
\* config keep their row and their objects.
C34_TickOnlyRemovesRowsOfCurrentDatabase ==
    /\ [][ /\ rows' = rows
           /\ configs' = configs
           /\ catalog' \subseteq catalog
           /\ \A id \in catalog \ catalog' :
                 /\ cur # 0
                 /\ rows[id].db = cur
                 /\ configs[cur].enabled
         ]_vars
    /\ [](\A id \in NotEnabledRows :
             /\ id \in catalog
             /\ DataBlob(id) \in blobs /\ MetaBlob(id) \in blobs
             /\ \A i \in DOMAIN handed : handed[i].id # id)

\* a finished tick removed backups of database 1 in both phases; the old
\* backup of database 2, whose backups are disabled, is still there
C34_Witness ==
    /\ pc = "wait" /\ ticks = 1
    /\ \E i, j \in DOMAIN handed :
          /\ handed[i].phase = "retention" /\ handed[i].result = "ok"
          /\ handed[j].phase = "size" /\ handed[j].result = "ok"
    /\ NotEnabledRows # {}
    /\ NotEnabledRows \subseteq catalog
    /\ \E id \in NotEnabledRows : now - rows[id].createdAt >= 2 * MinutesPerDay

-----------------------------------------------------------------------------
(* Configs that switch a path off (Spec).                                  *)

NoBudget(cfg) == \A k \in GFSClasses : cfg.gfs[k] <= 0

HandedOf(phase, db) ==
    {i \in DOMAIN handed : handed[i].phase = phase /\ handed[i].db = db}

\* C35: a COUNT config with retentionCount <= 0 and a GFS config whose five
\* budgets are all <= 0 make the retention phase hand nothing of their
\* database to DeleteBackup, although the keep-set of such budgets is empty
\* and no completed backup is in it; a config with maxBackupsTotalSizeMb <= 0
\* is passed over by the size phase; with both, the tick leaves the backups
\* of the database as they were.
C35_DegenerateConfigsDeleteNothing ==
    \A db \in Enabled :
        LET cfg == configs[db]
            retentionOff == \/ cfg.policy = "COUNT" /\ cfg.count <= 0
                            \/ cfg.policy = "GFS" /\ NoBudget(cfg)
        IN  /\ retentionOff => HandedOf("retention", db) = {}
            /\ (cfg.policy = "GFS" /\ NoBudget(cfg)) =>
                  \A s \in FindByDatabaseIdAndStatus(catalog, rows, db, "COMPLETED") :
                      BuildGFSKeepSet(s, rows, cfg.gfs) = {}
            /\ cfg.cap <= 0 =>
                  /\ HandedOf("size", db) = {}
                  /\ <<"size", db>> \notin visited
            /\ (retentionOff /\ cfg.cap <= 0) =>
                  OfDatabase(catalog, rows, db) = OfDatabase(BackupIds, rows, db)

\* a finished tick in which nothing failed: database 1 has completed backups
\* past the grace period, a GFS config with budgets of 0 and below and a
\* negative cap, or a negative count, and all its backups are still there
C35_Witness ==
    /\ pc = "wait" /\ ticks = 1 /\ faults = 0
    /\ \/ configs[1].policy = "GFS" /\ NoBudget(configs[1])
          /\ \E k \in GFSClasses : configs[1].gfs[k] < 0
       \/ configs[1].policy = "COUNT" /\ configs[1].count < 0 /\ configs[1].cap < 0
    /\ Cardinality(PastGrace({id \in OfDatabase(catalog, rows, 1) :
                                 rows[id].status = "COMPLETED"})) >= 2
    /\ RetentionVisited = Enabled

-----------------------------------------------------------------------------
(* Termination of the size loop (Spec).                                    *)

\* one iteration of the loop of cleanExceededBackupsForDatabase
SizeIteration == pc = "size" /\ cur # 0 /\ now' = now

CompletedTotal(S, db) == GetTotalSizeByDatabase(S, rows, db)

\* the deletions of the size phase of tick t that went through
SizeDeleted(t) == {i \in HandedIn(t, "size", 1) : handed[i].result = "ok"}

-----------------------------------------------------------------------------
(* The branch "over the limit but no backup to delete" (Spec).             *)

\* the size loop is at a database whose completed backups total more than
\* its cap
OverCapInLoop ==
    pc = "size" /\ cur # 0 /\ CompletedTotal(catalog, cur) > configs[cur].cap

\* C37: with one cleaner at work, sizes of 0 and above and a cap of 1 or
\* more, a database whose completed backups total more than the cap has a
\* backup that is not in progress, and the query for the oldest such backup
\* that the size loop makes above the cap never comes back empty: the loop
\* does not reach its branch for an empty answer.
C37_OverCapHasVictim ==
    /\ \A id \in BackupIds : rows[id].size >= 0
    /\ \A db \in CappedEnabled :
          CompletedTotal(catalog, db) > configs[db].cap =>
              EvictableOf(catalog, db) # {}
    /\ OverCapInLoop =>
          /\ configs[cur].cap >= 1
          /\ \A oldest \in SizeVictims(catalog, rows, cur) : oldest # <<>>

\* the size loop is at database 1, two completed backups are over the cap of
\* 1 and a third backup of the database is in progress
C37_Witness ==
    /\ OverCapInLoop /\ cur = 1
    /\ configs[1].cap = 1
    /\ CompletedTotal(catalog, 1) = 2
    /\ \E id \in OfDatabase(catalog, rows, 1) : rows[id].status = "IN_PROGRESS"
    /\ Cardinality(EvictableOf(catalog, 1)) = 2

-----------------------------------------------------------------------------
(* The size phase and what the retention phase kept (Spec).                *)

RetentionKeeps ==
    \/ configs[1].policy = "COUNT" /\ configs[1].count >= 1
    \/ GFSActive

\* the lists of completed backups the retention phase of tick t may have
\* loaded, given what it handed to DeleteBackup
LoadedAt(t) ==
    {s \in FindByDatabaseIdAndStatus(CatalogAt(t), rows, 1, "COMPLETED") :
        LET out == CompletedAt(t) \ RetainedOf(configs[1], s, rows) IN
        /\ RetentionHanded(t) \subseteq out
        /\ PastGrace(out) \subseteq RetentionHanded(t)}

\* the catalog at the head of each round of the size loop of tick t at
\* database 1, and as the tick left it
SizeRounds(t) ==
    {BackupIds \ OkBefore(i) : i \in HandedIn(t, "size", 1)}
    \cup {BackupIds \ {handed[i].id : i \in {j \in DOMAIN handed :
                          handed[j].tick <= t /\ handed[j].result = "ok"}}}

\* C38: the size phase does not look at what the retention phase of the same
\* tick kept: when nothing fails, a backup that the retention phase retained
\* (one of the N newest completed under COUNT, a member of the keep-set under
\* GFS) is removed by the size phase of that tick whenever a round of the
\* size loop finds the database over its cap with that backup as the oldest
\* non-in-progress one, past the grace period.
C38_SizePhaseDeletesRetained ==
    \A t \in 1..ticks :
        (TickOver(t) /\ Capped /\ RetentionKeeps /\ faults = 0) =>
            /\ LoadedAt(t) # {}
            /\ \A s \in LoadedAt(t), S \in SizeRounds(t) :
                  \A b \in RetainedOf(configs[1], s, rows) \cap S :
                      ( /\ CompletedTotal(S, 1) > configs[1].cap
                        /\ Oldest(Evictable(S)) = {b}
                        /\ PastGrace({b}) = {b} ) =>
                          b \in {handed[i].id : i \in SizeDeleted(t)}

\* a finished tick under GFS with two daily slots and a cap of 1: the
\* keep-set held two completed backups, the retention phase handed none of
\* them over, and the size phase removed the older of the two
C38_Witness ==
    /\ pc = "wait" /\ ticks = 1 /\ faults = 0
    /\ GFSActive /\ configs[1].cap = 1
    /\ LoadedAt(1) # {}
    /\ \A s \in LoadedAt(1) :
          /\ Cardinality(RetainedOf(configs[1], s, rows)) = 2
          /\ \E i \in SizeDeleted(1) :
                /\ handed[i].id \in RetainedOf(configs[1], s, rows)
                /\ handed[i].status = "COMPLETED"
    /\ Cardinality(CompletedAt(1)) = 3
    /\ Cardinality(RetentionDeleted(1)) = 1

-----------------------------------------------------------------------------
(* The plan's storage period and the COUNT and GFS policies (ValSpec).     *)

CountOrGFS == valConfig.policy \in {"COUNT", "GFS"}

\* the plan of the run with another storage period in it
PlanWithPeriod(q) == [valPlan EXCEPT !.MaxStoragePeriod = q]

\* C39: for a COUNT or GFS config the result of Validate is the same for
\* every two plans that differ in maxStoragePeriod only: what the run
\* returned is what Validate returns on the same config under the plan with
\* any other storage period, a known one or not.
C39_CountAndGFSIgnorePlanPeriod ==
    (Validated /\ CountOrGFS) =>
        \A q \in PeriodStrings :
            Validate(valConfig, PlanWithPeriod(q), valEnv) = valOut

\* a COUNT or GFS config that still carries a period of a year is accepted
\* under a plan that stores for a month at most; as a TIME_PERIOD config it
\* is rejected under that plan
C39_Witness ==
    /\ Validated /\ CountOrGFS
    /\ valConfig.period = "YEAR" /\ valPlan.MaxStoragePeriod = "MONTH"
    /\ valOut = "ok"
    /\ Validate([valConfig EXCEPT !.policy = "TIME_PERIOD"], valPlan, valEnv)
          = "storage period exceeds plan limit"

-----------------------------------------------------------------------------
(* The policy types of the cleaner and of the validator (ValSpec).         *)

InvalidType == "invalid retention policy type"

ValidatorTypes == {"", "TIME_PERIOD", "COUNT", "GFS"}

\* the validator applies its time-period rules to the type of the config: it
\* asks for a period when there is none
ValidatorTimePeriod ==
    ValidateRetentionPolicy([valConfig EXCEPT !.period = ""], valPlan)
        = "retention time period is required"

\* the cleaner sends the type of the config to cleanByTimePeriod
CleanerTimePeriod == RetentionStrategy(valConfig.policy) = "cleanByTimePeriod"

\* C40: the switch of the cleaner sends every type but COUNT and GFS, unknown
\* strings included, to the time-period strategy; validateRetentionPolicy
\* answers 'invalid retention policy type' exactly for the types outside
\* {empty, TIME_PERIOD, COUNT, GFS}, Validate never accepts such a config, and
\* returns that error for it once the interval check has passed; every type
\* the validator handles by its time-period rules goes to the time-period
\* strategy in the cleaner, and not the other way round (the witness).
C40_CleanerTakesMoreTypesThanValidator ==
    /\ valClean # NotCleaned =>
          /\ valClean.strategy = "cleanByTimePeriod"
                <=> valConfig.policy \notin {"COUNT", "GFS"}
          /\ ValidatorTimePeriod => valClean.strategy = "cleanByTimePeriod"
    /\ Validated =>
          /\ ValidateRetentionPolicy(valConfig, valPlan) = InvalidType
                <=> valConfig.policy \notin ValidatorTypes
          /\ valConfig.policy \notin ValidatorTypes =>
                /\ valOut # "ok"
                /\ ~ValidatorTimePeriod /\ CleanerTimePeriod
                /\ CheckInterval(valConfig) = "" => valOut = InvalidType
          /\ valConfig.policy \in ValidatorTypes => valOut # InvalidType
          /\ ValidatorTimePeriod <=> valConfig.policy \in {"", "TIME_PERIOD"}

\* a config of type INVALID with a period of a day was turned down for its
\* type; the cleaner, reading it from storage, sends it to cleanByTimePeriod,
\* which queries the backups older than a day
C40_Witness ==
    /\ valConfig.policy = "INVALID" /\ valConfig.period = "DAY"
    /\ valOut = InvalidType
    /\ valClean # NotCleaned
    /\ valClean.strategy = "cleanByTimePeriod"
    /\ valClean.outcome = "query"
    /\ ~ValidatorTimePeriod

=============================================================================
